---- MODULE Spec2Model ----
(***************************************************************************)
(* Model of the response-stream multiplexing and event-routing core of     *)
(* extensions/codestory/src/completions/providers/aideAgentProvider.ts:    *)
(* the stream registry (AideResponseStreamCollection), the agent event     *)
(* dispatcher (reportAgentEventsToChat) and the session driver             *)
(* (handleEvent / processEvent / streamResponse).                          *)
(*                                                                         *)
(* Strings are TLA+ strings: ids are concatenated, messages are lowered    *)
(* and searched character by character, as the TypeScript does.            *)
(***************************************************************************)
EXTENDS Integers, Sequences, FiniteSets, TLC

\* ------------------------------------------------------------------ bounds
\* The registry-only specification
MaxHandles == 2      \* stream handles registered
MaxOps == 4          \* registry calls
\* The driver specification: one stream, concurrent dispatchers
MaxStreams == 1      \* response streams the editor opens (initResponse)
MaxRequests == 1     \* handleEvent calls
MaxLoops == 3        \* reportAgentEventsToChat calls
MaxPulls == 2        \* events one reportAgentEventsToChat call pulls
\* The dispatcher specification: several streams, one dispatcher
MaxOpenStreams == 2  \* response streams the editor opens (initResponse)
MaxDispatchers == 1  \* reportAgentEventsToChat calls
MaxEvents == 2       \* events the reportAgentEventsToChat call pulls
\* The thinking specification: one stream, one dispatcher, ToolThinking events
MaxThoughts == 3     \* events the reportAgentEventsToChat call pulls
\* The control-server specification: edit streams and undo requests
MaxControlStreams == 1  \* streams initResponse opens
MaxEditCalls == 4       \* requests the control server handles
MaxText == 4            \* characters the Deltas of one edit stream carry in all
\* The specification of edit streams started while a dispatcher runs
\* The port specification
MaxProbes == 60         \* ports the search can probe before the port space ends
MaxStarts == 2          \* Start requests the control server handles
MaxTornCalls == 2  \* requests to the control server beside a dispatcher
MaxRetryLoops == 2  \* reportAgentEventsToChat calls: the first attempt and its retry
MaxBackgroundPulls == 1 \* events the reportAgentEventsToChat call pulls

\* ------------------------------------------------------------- identifiers
\* Opaque id strings. Ids may contain '-', the separator getKey uses (real
\* session and exchange ids are UUID-like and do contain it).
SessionIds == {"s", "s-x"}
ExchangeIds == {"e", "x-e"}

\* ResponseStreamIdentifier
Identifiers == [sessionId : SessionIds, exchangeId : ExchangeIds]

Ident(s, e) == [sessionId |-> s, exchangeId |-> e]

\* vscode.AideAgentEventSenderResponse: { stream, exchangeId, token }. id is
\* the object identity; sessionId is the session initResponse opened it for.
NoStream == [id |-> 0, sessionId |-> "", exchangeId |-> ""]

Stream(i, s, e) == [id |-> i, sessionId |-> s, exchangeId |-> e]

\* _latestResponseStream = undefined
NoLatest == [key |-> "", value |-> NoStream]

\* ------------------------------------------------------- JavaScript Map
\* A Map is the sequence of its entries in insertion order.
MapHas(m, k) == \E i \in 1..Len(m) : m[i].key = k

MapGet(m, k) ==
  IF MapHas(m, k) THEN m[CHOOSE i \in 1..Len(m) : m[i].key = k].value ELSE NoStream

\* Map.set: an existing key keeps its position
MapSet(m, k, v) ==
  IF MapHas(m, k)
  THEN [i \in 1..Len(m) |-> IF m[i].key = k THEN [key |-> k, value |-> v] ELSE m[i]]
  ELSE Append(m, [key |-> k, value |-> v])

MapDelete(m, k) == SelectSeq(m, LAMBDA en : en.key # k)

\* Array.from(map.values())
MapValues(m) == [i \in 1..Len(m) |-> m[i].value]

\* --------------------------------------------------------------- strings
UpperCase == "ABCDEFGHIJKLMNOPQRSTUVWXYZ"

LowerCase == "abcdefghijklmnopqrstuvwxyz"

CharAt(s, i) == SubSeq(s, i, i)

LowerChar(c) ==
  IF \E i \in 1..Len(UpperCase) : CharAt(UpperCase, i) = c
  THEN CharAt(LowerCase, CHOOSE i \in 1..Len(UpperCase) : CharAt(UpperCase, i) = c)
  ELSE c

\* String.prototype.toLowerCase, character by character
RECURSIVE lowerChars(_)
lowerChars(s) ==
  IF s = "" THEN "" ELSE LowerChar(CharAt(s, 1)) \o lowerChars(SubSeq(s, 2, Len(s)))

\* String.prototype.endsWith
endsWith(s, p) == Len(s) >= Len(p) /\ SubSeq(s, Len(s) - Len(p) + 1, Len(s)) = p

\* String.prototype.includes
includes(s, p) == \E i \in 1..(Len(s) - Len(p) + 1) : SubSeq(s, i, i + Len(p) - 1) = p

\* String.prototype.slice(n)
sliceFrom(s, n) == SubSeq(s, n + 1, Len(s))

\* ------------------------------------------------------------------ state
VARIABLES
  responseStreamCollection,  \* AideResponseStreamCollection.responseStreamCollection
  latestResponseStream,      \* AideResponseStreamCollection._latestResponseStream
  subscriptions,             \* cancellation listeners installed by addResponseStream
  closed,                    \* ids of the streams close() was called on
  lastThinkingText,          \* AideAgentSessionProvider.lastThinkingText
  startedStreams,            \* AideAgentSessionProvider.startedStreams
  loadingEmitted,            \* the (session, exchange) pairs stage "Loading..." was emitted for
  lastThought,               \* the last ToolThinking text handled, by (session, exchange) pair
  editsMap,                  \* the edit sessions, by edit_request_id
  editCounter,               \* this.editCounter
  editRuns,                  \* what each edit_request_id was sent and had processed since its last Start
  lastEdit,                  \* the last request the control server handled, and its result
  portSearch,                \* getNextOpenPort: startFrom, openPort, the probes made, where it stands
  streams,                   \* the streams initResponse has opened, by id
  cancelledTokens,           \* ids of the streams whose cancellation token has fired
  editorUrl,                 \* AideAgentSessionProvider.editorUrl ("" while undefined)
  eventQueue,                \* AideAgentSessionProvider.eventQueue
  processingEvents,          \* keys of AideAgentSessionProvider.processingEvents
  attempts,                  \* the streamResponse calls started, each with its position
  loops,                     \* the reportAgentEventsToChat calls started, each with its position
  lastStep,                  \* the step taken last: the event handled, the stream calls made
  lastCall,                  \* the registry call made last: its arguments and result
  prevCall,                  \* the registry call made before it
  lastFound,                 \* the handle the last successful lookup returned
  inFlight                   \* the provideEditStreamed calls suspended at an await, and their session

regVars == <<responseStreamCollection, latestResponseStream, subscriptions>>

callVars == <<lastCall, prevCall, lastFound>>

cacheVars == <<closed, lastThinkingText, startedStreams, loadingEmitted, lastThought>>

editVars == <<editsMap, editCounter, editRuns, lastEdit>>

portVars == <<portSearch>>

driverVars == <<streams, cancelledTokens, editorUrl, eventQueue, processingEvents, attempts,
                loops, lastStep>>

vars == <<responseStreamCollection, latestResponseStream, subscriptions, closed,
          lastThinkingText, startedStreams, loadingEmitted, lastThought, streams, cancelledTokens, editorUrl, eventQueue,
          processingEvents, attempts, loops, lastStep, lastCall, prevCall, lastFound,
          editsMap, editCounter, editRuns, lastEdit, portSearch, inFlight>>

\* ------------------------------------------------------------- the registry
\* The composite string key.
getKey(id) == id.sessionId \o "-" \o id.exchangeId

\* The registry and the provider's caches, threaded through the operations
\* below: reg, latest and subs are the registry, closed the streams close()
\* was called on, thinking and started the provider's lastThinkingText and
\* startedStreams, loaded the pairs "Loading..." was emitted for, thought the
\* last ToolThinking text handled for each pair, out the stream calls the
\* current step has made so far.
World == [reg |-> responseStreamCollection,
          latest |-> latestResponseStream,
          subs |-> subscriptions,
          closed |-> closed,
          thinking |-> lastThinkingText,
          started |-> startedStreams,
          loaded |-> loadingEmitted,
          thought |-> lastThought,
          out |-> <<>>]

\* addResponseStream: subscribes the cancellation listener, which captures the
\* identifier, then stores the handle. The latest reference is not touched.
addResponseStream(r, id, h) ==
  [r EXCEPT !.subs = Append(r.subs, [stream |-> h.id, ident |-> id]),
            !.reg = MapSet(r.reg, getKey(id), h)]

\* getResponseStream: returns the handle or undefined; a found handle becomes
\* the latest one.
getResponseStream(r, id) ==
  LET key == getKey(id)
      responseStream == MapGet(r.reg, key)
  IN [r |-> IF responseStream # NoStream
            THEN [r EXCEPT !.latest = [key |-> key, value |-> responseStream]]
            ELSE r,
      ret |-> responseStream]

\* removeResponseStream
RemoveOnlyClearsLatest(r, id) ==
  [r EXCEPT !.latest = IF MapHas(r.reg, getKey(id)) /\ r.latest.key = getKey(id)
                       THEN NoLatest ELSE @]

removeResponseStream(r, id) ==
  LET key == getKey(id)
      success == MapHas(r.reg, key)
  IN [r EXCEPT !.reg = MapDelete(r.reg, key),
               !.latest = IF success /\ r.latest.key = key THEN NoLatest ELSE @]

\* getAllResponseStreams
getAllResponseStreams(r) == MapValues(r.reg)

\* get latestResponseStream()
latestOf(r) == r.latest.value

\* ------------------------------------------------------- the stream sink
\* One call on a response stream: stream.stage, stream.markdown, ...
\* closedBefore records whether close() had already been called on it.
Emit(w, h, op, arg) ==
  [w EXCEPT !.out = Append(@, [stream |-> h.id, op |-> op, arg |-> arg,
                               closedBefore |-> h.id \in w.closed])]

\* responseStream?.stream.op(arg)
EmitIf(w, h, op, arg) == IF h = NoStream THEN w ELSE Emit(w, h, op, arg)

\* responseStream?.stream.close()
CloseIf(w, h) ==
  IF h = NoStream THEN w ELSE [Emit(w, h, "close", "") EXCEPT !.closed = @ \cup {h.id}]

\* lastThinkingText, a Map<string, string>, as a function on its keys
ThinkingGet(t, k) == IF k \in DOMAIN t THEN t[k] ELSE ""

ThinkingSet(t, k, v) == [x \in DOMAIN t \cup {k} |-> IF x = k THEN v ELSE t[x]]

ThinkingDelete(t, k) == [x \in DOMAIN t \ {k} |-> t[x]]

\* markLastMessageAsComplete
markLastMessageAsComplete(w, sessionId, exchangeId) ==
  LET id == Ident(sessionId, exchangeId)
      got == getResponseStream(w, id)
      w1 == EmitIf(got.r, got.ret, "markLastMessageAsComplete", "")
  IN [w1 EXCEPT !.thinking = ThinkingDelete(@, getKey(id))]

\* A teardown that closes the stream and leaves it in the registry
CloseWithoutRemove(w, sessionId, exchangeId) ==
  LET id == Ident(sessionId, exchangeId)
      got == getResponseStream(w, id)
      w1 == CloseIf(got.r, got.ret)
  IN [w1 EXCEPT !.thinking = ThinkingDelete(@, getKey(id))]

\* closeAndRemoveResponseStream
closeAndRemoveResponseStream(w, sessionId, exchangeId) ==
  LET id == Ident(sessionId, exchangeId)
      got == getResponseStream(w, id)
      w1 == CloseIf(got.r, got.ret)
      w2 == removeResponseStream(w1, id)
  IN [w2 EXCEPT !.thinking = ThinkingDelete(@, getKey(id))]

\* for (const openStream of openStreams) closeAndRemoveResponseStream(sessionId, openStream.exchangeId)
RECURSIVE closeEach(_, _, _)
closeEach(w, sessionId, openStreams) ==
  IF openStreams = <<>> THEN w
  ELSE closeEach(closeAndRemoveResponseStream(w, sessionId, Head(openStreams).exchangeId),
                 sessionId, Tail(openStreams))

\* const openStreams = getAllResponseStreams(); for (...) closeAndRemove...
closeOpenStreams(w, sessionId) == closeEach(w, sessionId, getAllResponseStreams(w))

\* newExchangeIdForSession, once initResponse has answered with response (a
\* new stream, or NoStream when the editor opens none): registers the stream
\* under its own exchange id.
newExchangeIdForSession(w, sessionId, response) ==
  IF response # NoStream
  THEN addResponseStream(w, Ident(sessionId, response.exchangeId), response)
  ELSE w

\* createNewResponseStream, once initResponse has answered
createNewResponseStream(w, sessionId, response) ==
  LET w1 == newExchangeIdForSession(w, sessionId, response)
  IN IF response # NoStream /\ response.exchangeId # ""
     THEN getResponseStream(w1, Ident(sessionId, response.exchangeId))
     ELSE [r |-> w1, ret |-> NoStream]

\* ToolCallError.error_string of an authorization failure
UnauthorizedToolError == "LLM Client error: Unauthorized access to API"

\* ------------------------------------------------------------- the events
\* SideCarAgentEvent, a tagged union. kind is the tag: keep_alive, started
\* (the start acknowledgement, a = "true" or "false"), done, or the populated
\* field of event.event. request_id and exchange_id are the envelope's ids; a,
\* b and c carry the payload of the kind.
Ev(kind, s, e, a, b, c) ==
  [kind |-> kind, request_id |-> s, exchange_id |-> e, a |-> a, b |-> b, c |-> c]

NoEvent == Ev("none", "", "", "", "", "")

\* Error.message values: user cancellation in two spellings, authorization
\* failure, a message that is both, a tool-output failure, anything else.
ErrorMessages ==
  {"Request cancelled by user", "Cancelled By User", "Unauthorized access to API",
   "unauthorized access: Cancelled by user", "LLM returned Wrong tool output", "boom"}

\* toLowerCase of the messages above is computed once and looked up
LowerTable == [m \in ErrorMessages |-> lowerChars(m)]

toLowerCase(s) == IF s \in DOMAIN LowerTable THEN LowerTable[s] ELSE lowerChars(s)

\* ToolCallError.error_string values
ToolCallErrors ==
  {"Cancelled Response", "LLM Client error: Unauthorized access to API",
   "LLM Client error: Rate limit exceeded", "bad format"}

\* ToolThinking.thinking: cumulative texts
ThinkingTexts == {"abc", "abcdef"}

\* ToolParameterFound.tool_parameter_input.field_name
FieldNames ==
  {"fs_file_path", "directory_path", "instruction", "result", "question", "command",
   "regex_pattern", "file_pattern", "other"}

\* Object.keys(tool_use_partial_input)[0]; "" is a null tool_use_partial_input
ToolUseKeys == {"", "AttemptCompletion", "OpenFile", "AskFollowupQuestions", "CodeEditing"}

\* The payloads of the structured events, without their envelope ids
ErrorPayloads == {<<"Error", m, "", "">> : m \in ErrorMessages}

ToolCallErrorPayloads == {<<"ToolCallError", m, "", "">> : m \in ToolCallErrors}

TerminalPayloads ==
  {<<"ToolUseDetected", "AttemptCompletion", "", "">>,
   <<"PlansExchangeState", "MarkedComplete", "", "">>}

ChatPayloads == {<<"ChatEvent", "hi", "", "">>}

CancelledPayloads == {<<"ExecutionState", "Cancelled", "", "">>}

ThinkingPayloads == {<<"ToolThinking", "abc", "", "">>}

Enveloped(payloads, idents) ==
  {Ev(p[1], id.sessionId, id.exchangeId, p[2], p[3], p[4]) : p \in payloads, id \in idents}

\* The (session, exchange) pairs of the structured events of the dispatcher
\* specification: two exchanges of one session, and an exchange of another
\* session whose composite key is that of the second.
DriverIdents == {Ident("s", "e"), Ident("s", "x-e"), Ident("s-x", "e")}

\* One exchange of each session
SessionIdents == {Ident("s", "e"), Ident("s-x", "e")}

\* The events the sidecar sends in the dispatcher specification
DispatchEvents ==
  {Ev("keep_alive", "", "", "", "", ""), Ev("done", "", "", "", "", ""),
   Ev("started", "s", "", "true", "", ""), Ev("started", "s", "", "false", "", "")}
  \cup Enveloped(ErrorPayloads, SessionIdents)
  \cup Enveloped(ToolCallErrorPayloads \cup TerminalPayloads \cup ChatPayloads
                  \cup ThinkingPayloads, DriverIdents)
  \cup Enveloped(CancelledPayloads, SessionIdents)

\* The events the sidecar sends in the thinking specification: cumulative
\* thinking texts for two exchanges, and an error
ThinkingEvents ==
  Enveloped({<<"ToolThinking", t, "", "">> : t \in ThinkingTexts},
            {Ident("s", "x-e"), Ident("s-x", "e")})
  \cup Enveloped({<<"Error", "boom", "", "">>}, {Ident("s", "e")})

\* The events the sidecar sends in the driver specification: the failed start,
\* the two authorization failures, an error that is neither, and a chat delta
DriverEvents ==
  {Ev("started", "s", "", "false", "", "")}
  \cup Enveloped({<<"Error", "Unauthorized access to API", "", "">>,
                  <<"Error", "boom", "", "">>,
                  <<"ToolCallError", UnauthorizedToolError, "", "">>}
                 \cup ChatPayloads, {Ident("s", "e")})

\* ------------------------------------------------------------ the messages
\* SidecarConnectionFailedError's default message
ConnectionFailedMessage ==
  "Connection error with sidecar. We'd appreciate it if you could report this session using the feedback tool above - this is on us"

FormatErrorMessage ==
  "The LLM that you're using right now returned a response that does not adhere to the format our framework expects, and thus this request has failed. If you keep seeing this error, this is likely because the LLM is unable to follow our system instructions and it is recommended to switch over to one of our recommended models instead."

ReportSuffix ==
  ".\n\nWe'd appreciate it if you could report this session using the feedback tool above - this is on us. Please try again."


\* ---------------------------------------------------------- the dispatcher
\* What handling one event leaves behind: the world, how the loop goes on
\* (continue, return, throw, or await: suspended in createNewResponseStream),
\* the new streamStarted, and whether authCallbacks.onUnauthorized was called.
Result(w, ctl, started, unauthorized) ==
  [w |-> w, ctl |-> ctl, streamStarted |-> started, onUnauthorized |-> unauthorized]

isCancelledByUser(message) == endsWith(toLowerCase(message), "cancelled by user")

isUnauthorized(message) == includes(toLowerCase(message), "unauthorized access")

\* The generic error path of a top-level error, from the resolved target stream on
errorTail(w, ev, stream) ==
  IF stream = NoStream THEN w
  ELSE LET w1 == IF endsWith(toLowerCase(ev.a), "wrong tool output")
                 THEN Emit(w, stream, "toolTypeError", FormatErrorMessage)
                 ELSE Emit(w, stream, "toolTypeError", ev.a \o ReportSuffix)
           w2 == Emit(w1, stream, "stage", "Error")
       IN closeOpenStreams(w2, ev.request_id)

\* A top-level error event. auth is "none" without authCallbacks, else
\* "first" or "retried" (hasRetried).
CancelKeepsStreams(w, auth, started, ev) ==
  IF isCancelledByUser(ev.a)
  THEN Result(EmitIf(w, latestOf(w), "stage", "Cancelled"), "return", TRUE, FALSE)
  ELSE Result(w, "return", started, FALSE)

errorEvent(w, auth, started, ev) ==
  IF isCancelledByUser(ev.a)
  THEN LET w1 == EmitIf(w, latestOf(w), "stage", "Cancelled")
       IN Result(closeOpenStreams(w1, ev.request_id), "return", TRUE, FALSE)
  ELSE LET called == isUnauthorized(ev.a) /\ auth # "none"
       IN IF latestOf(w) # NoStream
          THEN Result(errorTail(w, ev, latestOf(w)), "return", started, called)
          ELSE Result(w, "await", started, called)

\* A ToolCallError event on the resolved stream
toolCallError(w, auth, ev, responseStream) ==
  LET sessionId == ev.request_id
      w1 == IF ev.a = "Cancelled Response"
            THEN Emit(w, responseStream, "stage", "Cancelled")
            ELSE IF ev.a = UnauthorizedToolError
            THEN IF auth = "retried"
                 THEN Emit(Emit(w, responseStream, "stage", "Error"),
                           responseStream, "toolTypeError", "Invalid session")
                 ELSE w
            ELSE IF ev.a = "LLM Client error: Rate limit exceeded"
            THEN Emit(Emit(w, responseStream, "stage", "Error"),
                      responseStream, "toolTypeError", "Usage limit exceeded. Please upgrade.")
            ELSE Emit(Emit(w, responseStream, "toolTypeError", FormatErrorMessage),
                      responseStream, "stage", "Error")
  IN Result(closeOpenStreams(w1, sessionId), "return", TRUE,
            ev.a = UnauthorizedToolError /\ auth # "none")

\* A ToolParameterFound event on the resolved stream (the backquotes of the
\* markdown are written ' here)
toolParameterFound(w, ev, responseStream) ==
  LET fieldName == ev.a
      delta == ev.b
  IN IF fieldName \in {"fs_file_path", "directory_path"}
     THEN Emit(w, responseStream, "reference", delta)
     ELSE IF fieldName \in {"instruction", "result", "question"}
     THEN LET w1 == Emit(w, responseStream, "markdown", delta \o "\n")
          IN IF fieldName = "question"
             THEN markLastMessageAsComplete(w1, ev.request_id, ev.exchange_id)
             ELSE w1
     ELSE IF fieldName = "command"
     THEN Emit(w, responseStream, "markdown", "Running command: '" \o delta \o "'\n")
     ELSE IF fieldName = "regex_pattern"
     THEN Emit(w, responseStream, "markdown", "\nSearching the codebase: '" \o delta \o "'\n")
     ELSE IF fieldName = "file_pattern"
     THEN Emit(w, responseStream, "markdown", "\nLooking for files: '" \o delta \o "'\n")
     ELSE w

\* A ToolThinking event on the resolved stream
toolThinking(w, ev, responseStream) ==
  LET currentText == ev.a
      key == ev.request_id \o "-" \o ev.exchange_id
      lastText == ThinkingGet(w.thinking, key)
      delta == sliceFrom(currentText, Len(lastText))
      w1 == IF delta # "" THEN Emit(w, responseStream, "markdown", delta \o "\n") ELSE w
  IN [w1 EXCEPT !.thinking = ThinkingSet(@, key, currentText),
                !.thought = ThinkingSet(@, Ident(ev.request_id, ev.exchange_id), currentText)]

\* A variant in which 'AttemptCompletion' is handled like
\* 'AskFollowupQuestions': the loop goes on to the next event
AttemptCompletionContinues(w, ev, responseStream) ==
  IF ev.a \in {"AttemptCompletion", "AskFollowupQuestions"}
  THEN Result(closeOpenStreams(Emit(w, responseStream, "stage", "Complete"), ev.request_id),
              "continue", TRUE, FALSE)
  ELSE IF ev.a = "OpenFile"
  THEN Result(IF ev.b # "" THEN Emit(w, responseStream, "reference", ev.b) ELSE w,
              "continue", TRUE, FALSE)
  ELSE Result(w, "continue", TRUE, FALSE)

\* A ToolUseDetected event on the resolved stream
toolUseDetected(w, ev, responseStream) ==
  IF ev.a = "AttemptCompletion"
  THEN Result(closeOpenStreams(Emit(w, responseStream, "stage", "Complete"), ev.request_id),
              "return", TRUE, FALSE)
  ELSE IF ev.a = "OpenFile"
  THEN Result(IF ev.b # "" THEN Emit(w, responseStream, "reference", ev.b) ELSE w,
              "continue", TRUE, FALSE)
  ELSE IF ev.a = "AskFollowupQuestions"
  THEN Result(closeOpenStreams(Emit(w, responseStream, "stage", "Complete"), ev.request_id),
              "continue", TRUE, FALSE)
  ELSE Result(w, "continue", TRUE, FALSE)

\* An ExchangeEvent on the resolved stream; the stream is looked up again
exchangeEvent(w, ev) ==
  LET sessionId == ev.request_id
      exchangeId == ev.exchange_id
      got == getResponseStream(w, Ident(sessionId, exchangeId))
      rs == got.ret
      w0 == got.r
  IN IF ev.kind \in {"PlansExchangeState", "EditsExchangeState"}
     THEN IF ev.a = "Loading"
          THEN Result(EmitIf(w0, rs, "stage",
                             IF ev.kind = "PlansExchangeState" THEN "Planning" ELSE "Editing"),
                      "continue", TRUE, FALSE)
          ELSE IF ev.a = "Cancelled"
          THEN Result(markLastMessageAsComplete(EmitIf(w0, rs, "stage", "Cancelled"),
                                                sessionId, exchangeId),
                      "continue", TRUE, FALSE)
          ELSE IF ev.a = "MarkedComplete"
          THEN Result(closeAndRemoveResponseStream(EmitIf(w0, rs, "stage", "Complete"),
                                                   sessionId, exchangeId),
                      "return", TRUE, FALSE)
          ELSE IF ev.a = "Accepted" /\ ev.kind = "PlansExchangeState"
          THEN Result(EmitIf(w0, rs, "stage", "Accepted"), "continue", TRUE, FALSE)
          ELSE Result(w0, "continue", TRUE, FALSE)
     ELSE IF ev.kind = "ExecutionState"
     THEN IF ev.a = "Inference"
          THEN Result(EmitIf(w0, rs, "stage", "Reasoning"), "continue", TRUE, FALSE)
          ELSE IF ev.a = "InReview"
          THEN Result(EmitIf(w0, rs, "stage", "Review"), "continue", TRUE, FALSE)
          ELSE IF ev.a = "Cancelled"
          THEN Result(markLastMessageAsComplete(EmitIf(w0, rs, "stage", "Cancelled"),
                                                sessionId, exchangeId),
                      "continue", TRUE, FALSE)
          ELSE Result(w0, "continue", TRUE, FALSE)
     ELSE \* FinishedExchange
          Result(closeAndRemoveResponseStream(EmitIf(w0, rs, "stage", "Complete"),
                                              sessionId, exchangeId),
                 "continue", TRUE, FALSE)

\* An event that carries (request_id, exchange_id): resolve its stream, skip
\* the event when there is none, emit "Loading..." once, then handle the kind.
resolvedEvent(w, auth, started, ev) ==
  LET sessionId == ev.request_id
      exchangeId == ev.exchange_id
      got == getResponseStream(w, Ident(sessionId, exchangeId))
      responseStream == got.ret
      key == sessionId \o "-" \o exchangeId
      w1 == IF key \notin got.r.started
            THEN [Emit(got.r, responseStream, "stage", "Loading...")
                    EXCEPT !.started = @ \cup {key},
                           !.loaded = @ \cup {Ident(sessionId, exchangeId)}]
            ELSE got.r
  IN IF responseStream = NoStream THEN Result(got.r, "continue", started, FALSE)
     ELSE IF ev.kind = "OpenFile"
     THEN Result(IF ev.a # "" THEN Emit(w1, responseStream, "reference", ev.a) ELSE w1,
                 "continue", TRUE, FALSE)
     ELSE IF ev.kind = "ToolThinking"
     THEN Result(toolThinking(w1, ev, responseStream), "continue", TRUE, FALSE)
     ELSE IF ev.kind = "ToolParameterFound"
     THEN Result(toolParameterFound(w1, ev, responseStream), "continue", TRUE, FALSE)
     ELSE IF ev.kind = "ToolUseDetected"
     THEN toolUseDetected(w1, ev, responseStream)
     ELSE IF ev.kind = "ToolCallError"
     THEN toolCallError(w1, auth, ev, responseStream)
     ELSE IF ev.kind = "SymbolEventSubStep"
     THEN Result(IF ev.a = "Edit" /\ ev.c # "" /\ ev.b # ""
                 THEN Emit(w1, responseStream, "markdown", ev.b) ELSE w1,
                 "continue", TRUE, FALSE)
     ELSE IF ev.kind = "ChatEvent"
     THEN LET again == getResponseStream(w1, Ident(sessionId, exchangeId))
          IN Result(IF ev.c # "null" THEN EmitIf(again.r, again.ret, "markdown", ev.a)
                    ELSE again.r,
                    "continue", TRUE, FALSE)
     ELSE IF ev.kind = "PlanEvent"
     THEN LET again == getResponseStream(w1, Ident(sessionId, exchangeId))
          IN Result(IF ev.a = "PlanStepTitleAdded"
                    THEN EmitIf(EmitIf(again.r, again.ret, "stage", "Planning"),
                                again.ret, "step", "### " \o ev.b)
                    ELSE EmitIf(again.r, again.ret, "step", "\n" \o ev.b),
                    "continue", TRUE, FALSE)
     ELSE IF ev.kind \in {"PlansExchangeState", "EditsExchangeState", "ExecutionState",
                          "FinishedExchange"}
     THEN exchangeEvent(w1, ev)
     ELSE Result(w1, "continue", TRUE, FALSE)

\* A loop body in which the execution-state 'Cancelled' sub-event does not
\* mark the stream as started
CancelledLeavesUnstarted(w, auth, started, ev) ==
  IF ev.kind = "keep_alive" THEN Result(w, "continue", started, FALSE)
  ELSE IF ev.kind = "started"
  THEN IF ev.a = "false" THEN Result(w, "throw", FALSE, FALSE)
       ELSE Result(w, "continue", started, FALSE)
  ELSE IF ev.kind = "done" THEN Result(w, "continue", started, FALSE)
  ELSE IF ev.kind = "Error" THEN errorEvent(w, auth, started, ev)
  ELSE IF ev.kind = "ExecutionState" /\ ev.a = "Cancelled"
  THEN LET w1 == EmitIf(w, latestOf(w), "stage", "Cancelled")
       IN Result(closeOpenStreams(w1, ev.request_id), "continue", started, FALSE)
  ELSE resolvedEvent(w, auth, started, ev)

\* The body of the for-await loop of reportAgentEventsToChat for one event
handleOne(w, auth, started, ev) ==
  IF ev.kind = "keep_alive" THEN Result(w, "continue", started, FALSE)
  ELSE IF ev.kind = "started"
  THEN IF ev.a = "false" THEN Result(w, "throw", FALSE, FALSE)
       ELSE Result(w, "continue", started, FALSE)
  ELSE IF ev.kind = "done" THEN Result(w, "continue", started, FALSE)
  ELSE IF ev.kind = "Error" THEN errorEvent(w, auth, started, ev)
  ELSE IF ev.kind = "ExecutionState" /\ ev.a = "Cancelled"
  THEN LET w1 == EmitIf(w, latestOf(w), "stage", "Cancelled")
       IN Result(closeOpenStreams(w1, ev.request_id), "continue", TRUE, FALSE)
  ELSE resolvedEvent(w, auth, started, ev)

\* The catch block of reportAgentEventsToChat and of streamResponse, from the
\* resolved target stream on: without a stream the error is thrown again.
catchError(w, sessionId, message, stream) ==
  IF stream = NoStream THEN [w |-> w, rethrown |-> TRUE]
  ELSE LET w1 == Emit(w, stream, "toolTypeError", message \o ". Please try again.")
           w2 == Emit(w1, stream, "stage", "Error")
       IN [w |-> closeOpenStreams(w2, sessionId), rethrown |-> FALSE]

\* ------------------------------------------------------ the initial state
\* No registry call was made yet
NoCall == [n |-> 0, op |-> "none", ident |-> Ident("", ""), arg |-> NoStream, ret |-> NoStream]

\* The state after construction: nothing registered, no request received,
\* the port search still running (editorUrl undefined).
NoStep == [act |-> "none", loop |-> 0, attempt |-> 0, ev |-> NoEvent, out |-> <<>>,
           exit |-> "", resolved |-> {}, retried |-> FALSE]

\* getNextOpenPort(startFrom = 42427)
DefaultPort == 42427

\* The end of the port space in the loop condition: 65535 in the source,
\* brought down to MaxProbes ports above the default so that the search can
\* be followed to its end
PortSpaceEnd == DefaultPort + MaxProbes

\* The search as the constructor starts it: openPort = null (0), nothing probed
NoSearch == [startFrom |-> DefaultPort, openPort |-> 0, probes |-> <<>>, pc |-> "probing",
             listening |-> 0]

\* No request was pushed to the control server yet
NoRequest ==
  [edit_request_id |-> "", session_id |-> "", exchange_id |-> "", plan_step_id |-> "",
   apply_directly |-> FALSE, event |-> "none", delta |-> "", index |-> "null",
   fs_file_path |-> ""]

NoEdit ==
  [n |-> 0, request |-> NoRequest, file |-> "", ret |-> "", path |-> "", refused |-> FALSE,
   lines |-> <<>>,
   cleanups |-> 0, saves |-> 0, errors |-> <<>>, workspaceEdits |-> <<>>, out |-> <<>>]

\* No provideEditStreamed call is suspended; sessions holds the EditSession
\* object the suspended calls share (empty until a Start creates it)
NoInFlight ==
  [sessions |-> <<>>, handlers |-> <<>>, started |-> <<>>, finished |-> <<>>,
   cleanups |-> 0, afterCleanup |-> FALSE, overlapped |-> FALSE]

Init ==
  /\ inFlight = NoInFlight
  /\ responseStreamCollection = <<>>
  /\ latestResponseStream = NoLatest
  /\ subscriptions = <<>>
  /\ closed = {}
  /\ lastThinkingText = <<>>
  /\ startedStreams = {}
  /\ loadingEmitted = {}
  /\ lastThought = <<>>
  /\ streams = <<>>
  /\ cancelledTokens = {}
  /\ editorUrl = ""
  /\ eventQueue = <<>>
  /\ processingEvents = {}
  /\ attempts = <<>>
  /\ loops = <<>>
  /\ lastStep = NoStep
  /\ lastCall = NoCall
  /\ prevCall = NoCall
  /\ lastFound = NoStream
  /\ editsMap = <<>>
  /\ editCounter = 0
  /\ editRuns = <<>>
  /\ lastEdit = NoEdit
  /\ portSearch = NoSearch

\* ------------------------------------------------------- the session driver
\* vscode.AideAgentRequest: the ids and the mode. "Chat" obtains the event
\* stream synchronously (agentSessionChat); "Plan" stands for the modes whose
\* sidecar call is awaited (Edit, Plan, Agentic).
Requests == {[sessionId |-> "s", exchangeId |-> "e", mode |-> m] : m \in {"Chat", "Plan"}}

\* One retry per request at most, plus one the guards would have to refuse
MaxAttempts(B) == 2 * B.requests + 1

\* A streamResponse call: the request (its index in eventQueue), hasRetried,
\* the credential it was given, and where it stands: getSession (the
\* credential is awaited), call (the sidecar call is awaited), dispatch (its
\* reportAgentEventsToChat is awaited), catchAlloc (its catch block awaits
\* createNewResponseStream), done, rejected (the error was thrown again).
Attempt(req, hasRetried) ==
  [req |-> req, hasRetried |-> hasRetried,
   credential |-> IF hasRetried THEN "hardCheck" ELSE "softCheck",
   pc |-> "getSession", error |-> ""]

\* A reportAgentEventsToChat call: its sessionId argument, who started it
\* (origin: request, retry or cancel; attempt: the awaiting streamResponse
\* call, 0 for the cancellation listener, whose call nobody awaits), the
\* (session, exchange) it was started for, authCallbacks (none, first,
\* retried), and where it stands: pull (the next event is awaited),
\* errorAlloc and catchAlloc (createNewResponseStream is awaited in the error
\* branch and in the catch block), returned, threw.
Loop(sessionId, origin, attempt, ident, auth) ==
  [sessionId |-> sessionId, origin |-> origin, attempt |-> attempt, ident |-> ident,
   auth |-> auth, pc |-> "pull", streamStarted |-> FALSE, pulls |-> 0,
   pending |-> NoEvent, error |-> "", resolved |-> {}]

Finished(L, exit) ==
  [L EXCEPT !.pc = exit, !.streamStarted = FALSE, !.pulls = 0, !.pending = NoEvent,
            !.error = "", !.resolved = {}]

Commit(w) ==
  /\ responseStreamCollection' = w.reg
  /\ latestResponseStream' = w.latest
  /\ subscriptions' = w.subs
  /\ closed' = w.closed
  /\ lastThinkingText' = w.thinking
  /\ startedStreams' = w.started
  /\ loadingEmitted' = w.loaded
  /\ lastThought' = w.thought

\* What initResponse may answer: no stream, or a new stream with any exchange id
Responses(B, sessionId) ==
  {NoStream} \cup
  (IF Len(streams) < B.streams
   THEN {Stream(Len(streams) + 1, sessionId, e) : e \in ExchangeIds}
   ELSE {})

Opened(response) == IF response = NoStream THEN streams ELSE Append(streams, response)

\* The stream the event resolves at line 648, if it gets there
ResolvedBy(w, ev) ==
  IF ev.kind \in {"keep_alive", "started", "done", "Error", "none"}
     \/ (ev.kind = "ExecutionState" /\ ev.a = "Cancelled")
  THEN {}
  ELSE {MapGet(w.reg, getKey(Ident(ev.request_id, ev.exchange_id))).id} \ {0}

\* streamResponse's catch block, entered with the error its dispatcher threw:
\* the latest stream, else a new one, which is awaited.
driverAfterLoop(att, a, w, exit, message) ==
  IF a = 0 THEN [w |-> w, attempts |-> att]
  ELSE IF exit = "returned" THEN [w |-> w, attempts |-> [att EXCEPT ![a].pc = "done"]]
  ELSE IF latestOf(w) # NoStream
  THEN [w |-> catchError(w, eventQueue[att[a].req].sessionId, message, latestOf(w)).w,
        attempts |-> [att EXCEPT ![a].pc = "done"]]
  ELSE [w |-> w, attempts |-> [att EXCEPT ![a].pc = "catchAlloc", ![a].error = message]]

\* authCallbacks.onUnauthorized: on the first attempt it awaits a hard-checked
\* credential and calls streamResponse again with hasRetried = true
RetryAlways(att, L, called) ==
  IF called /\ L.auth # "none" THEN Append(att, Attempt(att[L.attempt].req, TRUE)) ELSE att

onUnauthorized(att, L, called) ==
  IF called /\ L.auth = "first" THEN Append(att, Attempt(att[L.attempt].req, TRUE)) ELSE att

\* The loop l goes on after a step that left the world w: ctl is continue,
\* await, return, throw (message is the error thrown inside the try block) or
\* rethrow (the catch block throws the error again). response is what
\* initResponse answered in this step, NoStream if it was not asked.
Step(act, l, a, ev, out, exit, resolved, retried) ==
  [act |-> act, loop |-> l, attempt |-> a, ev |-> ev, out |-> out, exit |-> exit,
   resolved |-> resolved, retried |-> retried]

Settle(B, act, l, ev, w, ctl, started, message, called, response) ==
  LET L == loops[l]
      att == onUnauthorized(attempts, L, called)
      resolved == L.resolved \cup ResolvedBy(World, ev)
      handled == ctl = "throw" /\ latestOf(w) # NoStream
      exit == IF ctl = "return" \/ handled THEN "returned"
              ELSE IF ctl = "rethrow" THEN "threw" ELSE ""
      wx == IF handled THEN catchError(w, L.sessionId, message, latestOf(w)).w ELSE w
      fin == driverAfterLoop(att, L.attempt, wx, exit, message)
  IN /\ Len(att) <= MaxAttempts(B)
     /\ IF exit # ""
        THEN /\ loops' = [loops EXCEPT ![l] = Finished(L, exit)]
             /\ attempts' = fin.attempts
             /\ Commit(fin.w)
             /\ lastStep' = Step(act, l, L.attempt, ev, fin.w.out, exit, resolved,
                                 att # attempts)
        ELSE /\ loops' = [loops EXCEPT
                            ![l].pc = CASE ctl = "continue" -> "pull"
                                        [] ctl = "await" -> "errorAlloc"
                                        [] OTHER -> "catchAlloc",
                            ![l].pulls = IF act = "pull" THEN @ + 1 ELSE @,
                            ![l].streamStarted = started,
                            ![l].pending = IF ctl = "await" THEN ev ELSE NoEvent,
                            ![l].error = IF ctl = "throw" THEN message ELSE "",
                            ![l].resolved = resolved]
             /\ attempts' = att
             /\ Commit(w)
             /\ lastStep' = Step(act, l, L.attempt, ev, w.out, "", {}, att # attempts)
     /\ streams' = Opened(response)
     /\ UNCHANGED <<cancelledTokens, editorUrl, eventQueue, processingEvents, callVars, editVars, portVars, inFlight>>

\* A loop that takes its next event while the previous one still awaits
\* createNewResponseStream
PullWhileAwaiting(B) ==
  \E l \in 1..Len(loops), ev \in B.events :
    LET L == loops[l]
        res == handleOne(World, L.auth, L.streamStarted, ev)
    IN /\ L.pc \in {"pull", "errorAlloc"}
       /\ L.pulls < B.pulls
       /\ Settle(B, "pull", l, ev, res.w, res.ctl, res.streamStarted, ConnectionFailedMessage,
                 res.onUnauthorized, NoStream)

\* for await (const event of asyncIterable): the next event arrives and the
\* loop body handles it, up to its next await.
Pull(B) ==
  \E l \in 1..Len(loops), ev \in B.events :
    LET L == loops[l]
        res == handleOne(World, L.auth, L.streamStarted, ev)
    IN /\ L.pc = "pull"
       /\ L.pulls < B.pulls
       /\ Settle(B, "pull", l, ev, res.w, res.ctl, res.streamStarted, ConnectionFailedMessage,
                 res.onUnauthorized, NoStream)

\* The event sequence ends: without streamStarted the loop throws
\* SidecarConnectionFailedError.
EndOfStream(B) ==
  \E l \in 1..Len(loops) :
    LET L == loops[l] IN
    /\ L.pc = "pull"
    /\ Settle(B, "end", l, NoEvent, World, IF L.streamStarted THEN "return" ELSE "throw",
              L.streamStarted, ConnectionFailedMessage, FALSE, NoStream)

\* The event sequence fails: the iteration throws.
StreamThrows(B) ==
  \E l \in 1..Len(loops) :
    /\ loops[l].pc = "pull"
    /\ Settle(B, "streamThrows", l, NoEvent, World, "throw", loops[l].streamStarted,
              "socket hang up", FALSE, NoStream)

\* The error branch resumes: createNewResponseStream has its answer
ErrorAllocResume(B) ==
  \E l \in 1..Len(loops) :
    \E response \in Responses(B, loops[l].pending.request_id) :
      LET L == loops[l]
          created == createNewResponseStream(World, L.pending.request_id, response)
      IN /\ L.pc = "errorAlloc"
         /\ Settle(B, "errorAlloc", l, L.pending, errorTail(created.r, L.pending, created.ret),
                   "return", L.streamStarted, "", FALSE, response)

\* The catch block resumes: createNewResponseStream has its answer
CatchAllocResume(B) ==
  \E l \in 1..Len(loops) :
    \E response \in Responses(B, loops[l].sessionId) :
      LET L == loops[l]
          created == createNewResponseStream(World, L.sessionId, response)
          caught == catchError(created.r, L.sessionId, L.error, created.ret)
      IN /\ L.pc = "catchAlloc"
         /\ Settle(B, "catchAlloc", l, NoEvent, caught.w,
                   IF caught.rethrown THEN "rethrow" ELSE "return", L.streamStarted,
                   L.error, FALSE, response)

\* processEvent up to its first await: nothing is started without editorUrl
processEvent(att, req) == IF editorUrl = "" THEN att ELSE Append(att, Attempt(req, FALSE))

\* handleEvent
\* A variant of the check of line 435 that ignores the marker
StartsWhateverTheMarker(event) == TRUE

startsProcessing(event) == (event.sessionId \o "-" \o event.exchangeId) \notin processingEvents

HandleEvent(B) ==
  \E event \in B.modes :
    LET uniqueId == event.sessionId \o "-" \o event.exchangeId IN
    /\ Len(eventQueue) < B.requests
    /\ eventQueue' = Append(eventQueue, event)
    /\ IF startsProcessing(event)
       THEN /\ processingEvents' = processingEvents \cup {uniqueId}
            /\ attempts' = processEvent(attempts, Len(eventQueue) + 1)
       ELSE UNCHANGED <<processingEvents, attempts>>
    /\ lastStep' = NoStep
    /\ UNCHANGED <<regVars, cacheVars, streams, cancelledTokens, editorUrl, loops, callVars, editVars, portVars, inFlight>>

\* streamResponse calls reportAgentEventsToChat with its authCallbacks
startDispatcher(B, a) ==
  LET A == attempts[a]
      event == eventQueue[A.req]
  IN /\ Len(loops) < B.loops
     /\ loops' = Append(loops, Loop(event.sessionId,
                                    IF A.hasRetried THEN "retry" ELSE "request", a,
                                    Ident(event.sessionId, event.exchangeId),
                                    IF A.hasRetried THEN "retried" ELSE "first"))
     /\ attempts' = [attempts EXCEPT ![a].pc = "dispatch"]

\* getSession has answered: streamResponse starts. In Chat mode the event
\* stream is there at once; in the other modes the sidecar call is awaited.
SessionAcquired(B) ==
  \E a \in 1..Len(attempts) :
    /\ attempts[a].pc = "getSession"
    /\ IF eventQueue[attempts[a].req].mode = "Chat"
       THEN startDispatcher(B, a)
       ELSE /\ attempts' = [attempts EXCEPT ![a].pc = "call"]
            /\ UNCHANGED loops
    /\ lastStep' = NoStep
    /\ UNCHANGED <<regVars, cacheVars, streams, cancelledTokens, editorUrl, eventQueue,
                   processingEvents, callVars, editVars, portVars, inFlight>>

\* The awaited sidecar call has returned the event stream
CallReturned(B) ==
  \E a \in 1..Len(attempts) :
    /\ attempts[a].pc = "call"
    /\ startDispatcher(B, a)
    /\ lastStep' = NoStep
    /\ UNCHANGED <<regVars, cacheVars, streams, cancelledTokens, editorUrl, eventQueue,
                   processingEvents, callVars, editVars, portVars, inFlight>>

\* The awaited sidecar call has failed: streamResponse's catch block
CallThrows ==
  \E a \in 1..Len(attempts) :
    LET fin == driverAfterLoop(attempts, a, World, "threw", "fetch failed") IN
    /\ attempts[a].pc = "call"
    /\ attempts' = fin.attempts
    /\ Commit(fin.w)
    /\ lastStep' = Step("callThrows", 0, a, NoEvent, fin.w.out, "", {}, FALSE)
    /\ UNCHANGED <<streams, cancelledTokens, editorUrl, eventQueue, processingEvents, loops,
                   callVars, editVars, portVars, inFlight>>

\* streamResponse's catch block resumes: createNewResponseStream has its
\* answer; without a stream the error is thrown again, and nobody catches it.
DriverCatchResume(B) ==
  \E a \in 1..Len(attempts) :
    \E response \in Responses(B, eventQueue[attempts[a].req].sessionId) :
      LET sessionId == eventQueue[attempts[a].req].sessionId
          created == createNewResponseStream(World, sessionId, response)
          caught == catchError(created.r, sessionId, attempts[a].error, created.ret)
      IN /\ attempts[a].pc = "catchAlloc"
         /\ attempts' = [attempts EXCEPT
                           ![a].pc = IF caught.rethrown THEN "rejected" ELSE "done",
                           ![a].error = IF caught.rethrown THEN @ ELSE ""]
         /\ Commit(caught.w)
         /\ streams' = Opened(response)
         /\ lastStep' = Step("driverCatch", 0, a, NoEvent, caught.w.out, "", {}, FALSE)
         /\ UNCHANGED <<cancelledTokens, editorUrl, eventQueue, processingEvents, loops,
                        callVars, editVars, portVars, inFlight>>

\* ------------------------------------------------------ the control server
\* newExchange, pushed by the sidecar
NewExchange(B) ==
  \E sessionId \in SessionIds :
    \E response \in Responses(B, sessionId) :
      /\ Commit(newExchangeIdForSession(World, sessionId, response))
      /\ streams' = Opened(response)
      /\ lastStep' = NoStep
      /\ UNCHANGED <<cancelledTokens, editorUrl, eventQueue, processingEvents, attempts,
                     loops, callVars, editVars, portVars, inFlight>>

\* ------------------------------------------------------------ cancellation
\* The cancellation token of a stream fires: every listener addResponseStream
\* installed on it asks the sidecar to cancel and starts a dispatcher, without
\* authCallbacks, on the events the cancel call returns.
\* A variant in which the listener cancels without naming the exchange
CancelWithoutExchange(listeners) ==
  [i \in 1..Len(listeners) |->
     Loop(listeners[i].ident.sessionId, "cancel", 0,
          Ident(listeners[i].ident.sessionId, ""), "none")]

cancelLoops(listeners) ==
  [i \in 1..Len(listeners) |->
     Loop(listeners[i].ident.sessionId, "cancel", 0, listeners[i].ident, "none")]

CancelToken(B) ==
  \E i \in 1..Len(streams) :
    LET listeners == SelectSeq(subscriptions, LAMBDA sub : sub.stream = i) IN
    /\ i \notin cancelledTokens
    /\ Len(loops) + Len(listeners) <= B.loops
    /\ cancelledTokens' = cancelledTokens \cup {i}
    /\ loops' = loops \o cancelLoops(listeners)
    /\ lastStep' = NoStep
    /\ UNCHANGED <<regVars, cacheVars, streams, editorUrl, eventQueue, processingEvents,
                   attempts, callVars, editVars, portVars, inFlight>>

\* ------------------------------------------------------------ construction
\* The port search of the constructor ends and sets editorUrl
PortFound ==
  /\ editorUrl = ""
  /\ editorUrl' = "http://localhost:42427"
  /\ lastStep' = NoStep
  /\ UNCHANGED <<regVars, cacheVars, streams, cancelledTokens, eventQueue, processingEvents,
                 attempts, loops, callVars, editVars, portVars, inFlight>>

\* The bounds of the driver specification and of the dispatcher specification
Driver ==
  [streams |-> MaxStreams, requests |-> MaxRequests, loops |-> MaxLoops, pulls |-> MaxPulls,
   events |-> DriverEvents, modes |-> Requests]

Dispatch ==
  [streams |-> MaxOpenStreams, requests |-> MaxRequests, loops |-> MaxDispatchers,
   pulls |-> MaxEvents,
   events |-> DispatchEvents, modes |-> Requests]

Thinking ==
  [streams |-> MaxStreams, requests |-> MaxRequests, loops |-> MaxDispatchers,
   pulls |-> MaxThoughts, events |-> ThinkingEvents, modes |-> Requests]

Next ==
  \/ HandleEvent(Driver)
  \/ SessionAcquired(Driver)
  \/ CallReturned(Driver)
  \/ CallThrows
  \/ DriverCatchResume(Driver)
  \/ Pull(Driver)
  \/ EndOfStream(Driver)
  \/ StreamThrows(Driver)
  \/ ErrorAllocResume(Driver)
  \/ CatchAllocResume(Driver)
  \/ NewExchange(Driver)
  \/ CancelToken(Driver)
  \/ PortFound

Spec == Init /\ [][Next]_vars

\* One request, one dispatcher, every kind of event
NextDispatch ==
  \/ HandleEvent(Dispatch)
  \/ SessionAcquired(Dispatch)
  \/ CallReturned(Dispatch)
  \/ CallThrows
  \/ DriverCatchResume(Dispatch)
  \/ Pull(Dispatch)
  \/ EndOfStream(Dispatch)
  \/ StreamThrows(Dispatch)
  \/ ErrorAllocResume(Dispatch)
  \/ CatchAllocResume(Dispatch)
  \/ NewExchange(Dispatch)
  \/ CancelToken(Dispatch)
  \/ PortFound

SpecDispatch == Init /\ [][NextDispatch]_vars

\* One request, one dispatcher, one stream, thinking texts
NextThinking ==
  \/ HandleEvent(Thinking)
  \/ SessionAcquired(Thinking)
  \/ CallReturned(Thinking)
  \/ CallThrows
  \/ DriverCatchResume(Thinking)
  \/ Pull(Thinking)
  \/ EndOfStream(Thinking)
  \/ StreamThrows(Thinking)
  \/ ErrorAllocResume(Thinking)
  \/ CatchAllocResume(Thinking)
  \/ NewExchange(Thinking)
  \/ CancelToken(Thinking)
  \/ PortFound

SpecThinking == Init /\ [][NextThinking]_vars

\* ---------------------------------------------------------- edit streams
\* AnswerSplitOnNewLineAccumulatorStreaming is imported from
\* chatState/convertStreamToMessage, which is not among the sources; it is
\* modelled as documented: addDelta appends the fragment and moves every line
\* that now has its terminator to the queue getLine takes from.
FirstNewLine(text) ==
  CHOOSE k \in 1..Len(text) :
    /\ CharAt(text, k) = "\n"
    /\ \A j \in 1..(k - 1) : CharAt(text, j) # "\n"

RECURSIVE splitLines(_)
splitLines(text) ==
  IF ~includes(text, "\n") THEN [lines |-> <<>>, rest |-> text]
  ELSE LET k == FirstNewLine(text)
           more == splitLines(SubSeq(text, k + 1, Len(text)))
       IN [lines |-> <<SubSeq(text, 1, k - 1)>> \o more.lines, rest |-> more.rest]

\* new AnswerSplitOnNewLineAccumulatorStreaming()
NewAnswerSplitter == [accumulator |-> "", lines |-> <<>>]

addDelta(answerSplitter, delta) ==
  LET split == splitLines(answerSplitter.accumulator \o delta)
  IN [accumulator |-> split.rest, lines |-> answerSplitter.lines \o split.lines]

\* new StreamProcessor(...): what it was constructed with, the lines
\* processLine was called with, and the number of cleanup() calls
NewStreamProcessor(responseStream, documentLines, applyDirectly, uniqueEditId) ==
  [stream |-> responseStream.id, documentLines |-> documentLines,
   applyDirectly |-> applyDirectly, uniqueEditId |-> uniqueEditId,
   processed |-> <<>>, cleaned |-> 0]

\* while (true) { getLine(); if null break; await processLine(currentLine) }
drain(editsManager) ==
  [answerSplitter |-> [editsManager.answerSplitter EXCEPT !.lines = <<>>],
   streamProcessor |-> [editsManager.streamProcessor EXCEPT
                          !.processed = @ \o editsManager.answerSplitter.lines]]

\* this.openResponseStream is declared and never assigned
openResponseStream == NoStream

\* What opening the target file of a Start can come to: the document opens;
\* it does not, is created and opens; it can neither be opened nor created;
\* it is created and opening it fails again
FileOutcomes == {"opened", "created", "failed", "createdUnopenable"}

\* document.getText().split(/\r\n|\r|\n/g) of the text the file holds
DocumentLines(file) == IF file = "opened" THEN <<"x", "">> ELSE <<"">>

FileCreationFailed(fileDocument) ==
  "File creation at " \o fileDocument \o " failed, please tell the devs!"

FsFilePath == "/f.ts"

\* What one request to the control server did: the new state, the value it
\* returned ("threw" when the promise rejects), whether it was turned away
\* for want of a stream, the lines handed to processLine, the cleanup and
\* save calls, the messages shown, and the edits sent to a stream.
EditResult(w, map, counter, ret, refused, lines, ended, errors) ==
  [w |-> w, map |-> map, counter |-> counter, ret |-> ret, path |-> "", refused |-> refused,
   lines |-> lines, cleanups |-> ended, saves |-> ended, errors |-> errors,
   workspaceEdits |-> <<>>]

\* A variant of Start that opens the session whether or not there is a document
StartWithoutDocument(w, map, counter, request, responseStream, uniqueEditId, file) ==
  IF file = "createdUnopenable"
  THEN EditResult(w, map, counter, "threw", FALSE, <<>>, 0, <<>>)
  ELSE EditResult(w,
                  ThinkingSet(map, request.edit_request_id,
                              [answerSplitter |-> NewAnswerSplitter,
                               streamProcessor |->
                                 NewStreamProcessor(responseStream, DocumentLines(file),
                                                    request.apply_directly, uniqueEditId)]),
                  counter, IF file = "failed" THEN "false" ELSE "true", FALSE, <<>>, 0,
                  IF file = "failed" THEN <<FileCreationFailed(FsFilePath)>> ELSE <<>>)

\* 'Start' === editStreamEvent.event
editStart(w, map, counter, request, responseStream, uniqueEditId, file) ==
  IF file = "createdUnopenable"
  THEN EditResult(w, map, counter, "threw", FALSE, <<>>, 0, <<>>)
  ELSE IF file = "failed"
  THEN EditResult(w, map, counter, "false", FALSE, <<>>, 0,
                  <<FileCreationFailed(FsFilePath)>>)
  ELSE EditResult(w,
                  ThinkingSet(map, request.edit_request_id,
                              [answerSplitter |-> NewAnswerSplitter,
                               streamProcessor |->
                                 NewStreamProcessor(responseStream, DocumentLines(file),
                                                    request.apply_directly, uniqueEditId)]),
                  counter, "true", FALSE, <<>>, 0, <<>>)

\* A variant of End that leaves the edit stream alone when there is no session
EndIfPresent(w, map, counter, request) ==
  IF request.edit_request_id \notin DOMAIN map
  THEN EditResult(w, map, counter, "true", FALSE, <<>>, 0, <<>>)
  ELSE EditResult(w, ThinkingDelete(map, request.edit_request_id), counter + 1, "true",
                  FALSE, map[request.edit_request_id].answerSplitter.lines, 1, <<>>)

\* 'End' === editStreamEvent.event: editsMap.get is not checked, so without a
\* session reading editsManager.answerSplitter throws a TypeError
editEnd(w, map, counter, request) ==
  IF request.edit_request_id \notin DOMAIN map
  THEN EditResult(w, map, counter, "threw", FALSE, <<>>, 0, <<>>)
  ELSE EditResult(w, ThinkingDelete(map, request.edit_request_id), counter + 1, "true",
                  FALSE, map[request.edit_request_id].answerSplitter.lines, 1, <<>>)

\* A variant of Delta that only buffers the fragment and leaves the lines to End
DeltaWithoutDrain(w, map, counter, request) ==
  IF request.edit_request_id \notin DOMAIN map
  THEN EditResult(w, map, counter, "true", FALSE, <<>>, 0, <<>>)
  ELSE LET editsManager == map[request.edit_request_id]
           added == [editsManager EXCEPT !.answerSplitter = addDelta(@, request.delta)]
       IN EditResult(w, ThinkingSet(map, request.edit_request_id, added), counter, "true",
                     FALSE, <<>>, 0, <<>>)

\* A variant of Delta that opens a session when there is none
DeltaOpensSession(w, map, counter, request) ==
  LET editsManager ==
        IF request.edit_request_id \in DOMAIN map THEN map[request.edit_request_id]
        ELSE [answerSplitter |-> NewAnswerSplitter,
              streamProcessor |-> NewStreamProcessor(NoStream, <<"">>,
                                                     request.apply_directly,
                                                     request.exchange_id)]
      added == [editsManager EXCEPT !.answerSplitter = addDelta(@, request.delta)]
  IN EditResult(w, ThinkingSet(map, request.edit_request_id, drain(added)), counter, "true",
                FALSE, added.answerSplitter.lines, 0, <<>>)

\* editStreamEvent.event.Delta, a non-empty fragment
editDelta(w, map, counter, request) ==
  IF request.edit_request_id \notin DOMAIN map
  THEN EditResult(w, map, counter, "true", FALSE, <<>>, 0, <<>>)
  ELSE LET editsManager == map[request.edit_request_id]
           added == [editsManager EXCEPT !.answerSplitter = addDelta(@, request.delta)]
       IN EditResult(w, ThinkingSet(map, request.edit_request_id, drain(added)), counter,
                     "true", FALSE, added.answerSplitter.lines, 0, <<>>)

\* A variant in which every event that is neither Start nor a fragment ends
\* the edit stream
EmptyDeltaEnds(w0, map, counter, request, file) ==
  LET got == getResponseStream(w0, Ident(request.session_id, request.exchange_id))
      responseStream == got.ret
      w == got.r
      uniqueEditId == IF request.plan_step_id # ""
                      THEN request.exchange_id \o "::" \o request.plan_step_id
                      ELSE request.exchange_id
  IN IF ~request.apply_directly /\ openResponseStream = NoStream /\ responseStream = NoStream
     THEN EditResult(w, map, counter, "false", TRUE, <<>>, 0, <<>>)
     ELSE IF request.event = "Start"
     THEN editStart(w, map, counter, request, responseStream, uniqueEditId, file)
     ELSE IF request.event = "Delta" /\ request.delta # ""
     THEN editDelta(w, map, counter, request)
     ELSE editEnd(w, map, counter, request)

\* provideEditStreamed
provideEditStreamed(w0, map, counter, request, file) ==
  LET got == getResponseStream(w0, Ident(request.session_id, request.exchange_id))
      responseStream == got.ret
      w == got.r
      uniqueEditId == IF request.plan_step_id # ""
                      THEN request.exchange_id \o "::" \o request.plan_step_id
                      ELSE request.exchange_id
  IN IF ~request.apply_directly /\ openResponseStream = NoStream /\ responseStream = NoStream
     THEN EditResult(w, map, counter, "false", TRUE, <<>>, 0, <<>>)
     ELSE IF request.event = "Start"
     THEN editStart(w, map, counter, request, responseStream, uniqueEditId, file)
     ELSE IF request.event = "End"
     THEN editEnd(w, map, counter, request)
     ELSE IF request.event = "Delta" /\ request.delta # ""
     THEN editDelta(w, map, counter, request)
     ELSE EditResult(w, map, counter, "true", FALSE, <<>>, 0, <<>>)

\* undoToCheckpoint
undoToCheckpoint(w0, map, counter, request) ==
  LET got == getResponseStream(w0, Ident(request.session_id, request.exchange_id))
      responseStream == got.ret
      label == IF request.index # "null"
               THEN request.exchange_id \o "::" \o request.index
               ELSE request.exchange_id
      edit == [uri |-> "/undoCheck", range |-> <<0, 0, 0, 0>>, label |-> label,
               needsConfirmation |-> FALSE]
  IN IF responseStream = NoStream
     THEN EditResult(got.r, map, counter, "false", FALSE, <<>>, 0, <<>>)
     ELSE [EditResult(Emit(got.r, responseStream, "codeEdit", label), map, counter, "true",
                      FALSE, <<>>, 0, <<>>)
             EXCEPT !.workspaceEdits = <<edit>>]

\* A variant of provideEdit that forwards to applyEdits whatever the stream
ForwardsWithoutStream(w, map, counter, request, open) ==
  [EditResult(w, map, counter, "true", FALSE, <<>>, 0, <<>>)
     EXCEPT !.path = request.fs_file_path,
            !.workspaceEdits =
              <<[via |-> IF request.apply_directly THEN "applyEditsDirectly" ELSE "applyEdits",
                 stream |-> open.id, fs_file_path |-> request.fs_file_path]>>]

\* provideEdit; open is this.openResponseStream. applyEditsDirectly and
\* applyEdits (server/applyEdits) are recorded as the calls made.
provideEdit(w, map, counter, request, open) ==
  IF request.apply_directly
  THEN [EditResult(w, map, counter, "true", FALSE, <<>>, 0, <<>>)
          EXCEPT !.path = request.fs_file_path,
                 !.workspaceEdits = <<[via |-> "applyEditsDirectly", stream |-> 0,
                                       fs_file_path |-> request.fs_file_path]>>]
  ELSE IF open = NoStream
  THEN [EditResult(w, map, counter, "true", FALSE, <<>>, 0, <<>>)
          EXCEPT !.path = request.fs_file_path]
  ELSE [EditResult(w, map, counter, "true", FALSE, <<>>, 0, <<>>)
          EXCEPT !.path = request.fs_file_path,
                 !.workspaceEdits = <<[via |-> "applyEdits", stream |-> open.id,
                                       fs_file_path |-> request.fs_file_path]>>]

\* ------------------------------------------- control-server specification
EditRequestIds == {"r1", "r2"}

\* The fragments the sidecar streams: a first line with the start of a second,
\* a terminator, two lines at once, and the empty fragment
Fragments == {"", "a\nb", "\n", "a\nb\n"}

EditRequest(id, applyDirectly, event, delta) ==
  [edit_request_id |-> id, session_id |-> "s", exchange_id |-> "e", plan_step_id |-> "",
   apply_directly |-> applyDirectly, event |-> event, delta |-> delta, index |-> "null",
   fs_file_path |-> FsFilePath]

EditRequests ==
  {EditRequest(id, d, ev, "") : id \in EditRequestIds, d \in BOOLEAN, ev \in {"Start", "End"}}
  \cup {EditRequest(id, d, "Delta", f) : id \in EditRequestIds, d \in BOOLEAN, f \in Fragments}

PlanStepIndexes == {"null", "0", "1"}

UndoRequests ==
  {[edit_request_id |-> "", session_id |-> id.sessionId, exchange_id |-> id.exchangeId,
    plan_step_id |-> "", apply_directly |-> FALSE, event |-> "Undo", delta |-> "",
    index |-> i, fs_file_path |-> ""] : id \in Identifiers, i \in PlanStepIndexes}

\* What an edit_request_id was sent since its last Start, and what was done
\* with it: how the file of the Start came out, the fragments of the Deltas
\* joined and the number of those that were not empty, whether a request was
\* turned away, the lines handed to processLine,
\* the cleanup and save calls, the End requests.
NewRun(file, refused) ==
  [file |-> file, refused |-> refused, text |-> "", deltas |-> 0, handed |-> <<>>,
   cleanups |-> 0, saves |-> 0, ends |-> 0]

Ran(runs, request, file, res) ==
  LET id == request.edit_request_id IN
  IF request.event = "Start" THEN ThinkingSet(runs, id, NewRun(file, res.refused))
  ELSE IF id \notin DOMAIN runs THEN runs
  ELSE ThinkingSet(runs, id,
         [runs[id] EXCEPT !.refused = @ \/ res.refused,
                          !.text = @ \o request.delta,
                          !.deltas = @ + (IF request.delta # "" THEN 1 ELSE 0),
                          !.handed = @ \o res.lines,
                          !.cleanups = @ + res.cleanups,
                          !.saves = @ + res.saves,
                          !.ends = @ + (IF request.event = "End" THEN 1 ELSE 0)])

Handled(request, file, res) ==
  [n |-> lastEdit.n + 1, request |-> request, file |-> file, ret |-> res.ret,
   path |-> res.path, refused |-> res.refused,
   lines |-> res.lines, cleanups |-> res.cleanups, saves |-> res.saves,
   errors |-> res.errors, workspaceEdits |-> res.workspaceEdits, out |-> res.w.out]

ControlFrame ==
  /\ lastStep' = NoStep
  /\ UNCHANGED <<streams, cancelledTokens, editorUrl, eventQueue, processingEvents, attempts,
                 loops, callVars, portVars, inFlight>>

\* The sidecar pushes one event of an edit stream
ProvideEditStreamed(E) ==
  \E request \in E.requests, file \in FileOutcomes :
    LET res == provideEditStreamed(World, editsMap, editCounter, request, file)
        id == request.edit_request_id
    IN /\ lastEdit.n < E.calls
       /\ request.event # "Start" => file = "opened"
       /\ (request.event = "Delta" /\ id \in DOMAIN editRuns)
            => Len(editRuns[id].text) + Len(request.delta) <= MaxText
       /\ Commit(res.w)
       /\ editsMap' = res.map
       /\ editCounter' = res.counter
       /\ editRuns' = Ran(editRuns, request, file, res)
       /\ lastEdit' = Handled(request, file, res)
       /\ ControlFrame

\* The sidecar asks to roll back to a checkpoint
UndoToCheckpoint ==
  \E request \in UndoRequests :
    LET res == undoToCheckpoint(World, editsMap, editCounter, request)
    IN /\ lastEdit.n < MaxEditCalls
       /\ Commit(res.w)
       /\ UNCHANGED <<editsMap, editCounter, editRuns>>
       /\ lastEdit' = Handled(request, "", res)
       /\ ControlFrame

Control ==
  [streams |-> MaxControlStreams, requests |-> 0, loops |-> 0, pulls |-> 0, events |-> {},
   modes |-> {}]

\* The requests of the control-server specification
Edits == [requests |-> EditRequests, calls |-> MaxEditCalls]

\* Start requests only
Starts ==
  [requests |-> {EditRequest(id, d, "Start", "") : id \in EditRequestIds, d \in BOOLEAN},
   calls |-> MaxStarts]

\* One request and one dispatcher, which pulls one event
Background ==
  [streams |-> MaxStreams, requests |-> MaxRequests, loops |-> MaxDispatchers,
   pulls |-> MaxBackgroundPulls,
   events |-> Enveloped({<<"Error", "boom", "", "">>}, {Ident("s", "e")}),
   modes |-> Requests]

\* Edit streams, while exchanges are opened
NextControl ==
  \/ ProvideEditStreamed(Edits)
  \/ NewExchange(Control)

SpecControl == Init /\ [][NextControl]_vars

\* Edit streams started while a request is handled
NextStarts ==
  \/ ProvideEditStreamed(Starts)
  \/ HandleEvent(Background)
  \/ SessionAcquired(Background)
  \/ CallReturned(Background)
  \/ CallThrows
  \/ DriverCatchResume(Background)
  \/ Pull(Background)
  \/ EndOfStream(Background)
  \/ StreamThrows(Background)
  \/ ErrorAllocResume(Background)
  \/ CatchAllocResume(Background)
  \/ NewExchange(Background)
  \/ CancelToken(Background)
  \/ PortFound

SpecStarts == Init /\ [][NextStarts]_vars

\* The one-shot edits the sidecar pushes
ApplyRequests ==
  {[EditRequest("", d, "Apply", "") EXCEPT !.fs_file_path = p, !.exchange_id = e] :
     d \in BOOLEAN, p \in {"/f.ts", "/g.ts"}, e \in ExchangeIds}

\* The sidecar pushes a one-shot edit
ProvideEdit ==
  \E request \in ApplyRequests :
    LET res == provideEdit(World, editsMap, editCounter, request, openResponseStream)
    IN /\ lastEdit.n < MaxEditCalls
       /\ Commit(res.w)
       /\ UNCHANGED <<editsMap, editCounter, editRuns>>
       /\ lastEdit' = Handled(request, "", res)
       /\ ControlFrame

\* One-shot edits, while exchanges are opened
NextApply ==
  \/ ProvideEdit
  \/ NewExchange(Control)

SpecApply == Init /\ [][NextApply]_vars

\* Undo requests, while exchanges are opened
NextUndo ==
  \/ UndoToCheckpoint
  \/ NewExchange(Control)

SpecUndo == Init /\ [][NextUndo]_vars

\* ------------------------------------------------------- port specification
\* A variant of the loop body that moves on by two ports
ProbeSkipsPort(search, open) ==
  LET probed == [search EXCEPT !.probes = Append(@, [port |-> search.startFrom, open |-> open])]
  IN IF open
     THEN [probed EXCEPT !.openPort = search.startFrom, !.pc = "found"]
     ELSE [probed EXCEPT !.startFrom = @ + 2]

\* The body of the loop of getNextOpenPort, once isPortOpen(startFrom) has
\* resolved to open
probe(search, open) ==
  LET probed == [search EXCEPT !.probes = Append(@, [port |-> search.startFrom, open |-> open])]
  IN IF open
     THEN [probed EXCEPT !.openPort = search.startFrom, !.pc = "found"]
     ELSE [probed EXCEPT !.startFrom = @ + 1]

\* while (startFrom < 65535 || !!openPort)
Searching(search) ==
  search.pc = "probing" /\ (search.startFrom < PortSpaceEnd \/ search.openPort # 0)

PortFrame ==
  /\ lastStep' = NoStep
  /\ UNCHANGED <<regVars, cacheVars, streams, cancelledTokens, eventQueue, processingEvents,
                 attempts, loops, callVars, editVars, inFlight>>

\* One turn of the loop: isPortOpen resolves true when the probe server gets
\* to listen, false on any error
IsPortOpen ==
  \E open \in BOOLEAN :
    /\ Searching(portSearch)
    /\ portSearch' = probe(portSearch, open)
    /\ UNCHANGED editorUrl
    /\ PortFrame

\* The loop is left and the callback of the constructor runs: with no port
\* it throws, and nothing handles the rejection; with a port the request
\* server listens on it and editorUrl is set
SearchReturns ==
  /\ portSearch.pc \in {"probing", "found"}
  /\ ~Searching(portSearch)
  /\ IF portSearch.openPort = 0
     THEN /\ portSearch' = [portSearch EXCEPT !.pc = "failed"]
          /\ UNCHANGED editorUrl
     ELSE /\ portSearch' = [portSearch EXCEPT !.pc = "listening",
                                              !.listening = portSearch.openPort]
          /\ editorUrl' = "http://localhost:" \o ToString(portSearch.openPort)
  /\ PortFrame

NextPort == IsPortOpen \/ SearchReturns

\* isPortOpen resolves on either outcome of the probe, and the callback runs
\* once the search has resolved
SpecPort == Init /\ [][NextPort]_vars /\ WF_vars(NextPort)

\* ---------------------------------------------- registry-only specification
\* The three registry calls, made in any order with any identifier. A handle
\* is registered under the identifier it was opened for, as
\* newExchangeIdForSession does.
Call(op, id, h, ret) ==
  [n |-> lastCall.n + 1, op |-> op, ident |-> id, arg |-> h, ret |-> ret]

SetRegistry(r) ==
  /\ responseStreamCollection' = r.reg
  /\ latestResponseStream' = r.latest
  /\ subscriptions' = r.subs

InitRegistry == Init

RegAdd ==
  \E id \in Identifiers, i \in 1..MaxHandles :
    LET h == Stream(i, id.sessionId, id.exchangeId) IN
    /\ lastCall.n < MaxOps
    /\ SetRegistry(addResponseStream(World, id, h))
    /\ lastCall' = Call("add", id, h, NoStream)
    /\ prevCall' = lastCall
    /\ UNCHANGED <<lastFound, cacheVars, driverVars, editVars, portVars, inFlight>>

RegGet ==
  \E id \in Identifiers :
    LET got == getResponseStream(World, id) IN
    /\ lastCall.n < MaxOps
    /\ SetRegistry(got.r)
    /\ lastCall' = Call("get", id, NoStream, got.ret)
    /\ prevCall' = lastCall
    /\ lastFound' = IF got.ret # NoStream THEN got.ret ELSE lastFound
    /\ UNCHANGED <<cacheVars, driverVars, editVars, portVars, inFlight>>

RegRemove ==
  \E id \in Identifiers :
    /\ lastCall.n < MaxOps
    /\ SetRegistry(removeResponseStream(World, id))
    /\ lastCall' = Call("remove", id, NoStream, NoStream)
    /\ prevCall' = lastCall
    /\ UNCHANGED <<lastFound, cacheVars, driverVars, editVars, portVars, inFlight>>

NextRegistry == RegAdd \/ RegGet \/ RegRemove

SpecRegistry == InitRegistry /\ [][NextRegistry]_vars

\* ------------------------------------------------------------------ claims
SameKey(a, b) == a.ident = b.ident

\* C1: register(k, h) followed by lookup(k) returns h, and remove(k) followed
\* by lookup(k) returns none, for every identifier k and handle h.
C1_RegisterLookupRemove ==
  [][/\ (lastCall.op = "add" /\ lastCall'.op = "get" /\ SameKey(lastCall, lastCall'))
          => lastCall'.ret = lastCall.arg
     /\ (lastCall.op = "remove" /\ lastCall'.op = "get" /\ SameKey(lastCall, lastCall'))
          => lastCall'.ret = NoStream]_vars

\* A lookup that returns none right after the removal of a key that had been
\* registered.
C1_Witness ==
  /\ lastCall.op = "get" /\ lastCall.ret = NoStream
  /\ prevCall.op = "remove" /\ SameKey(prevCall, lastCall)
  /\ \E i \in 1..Len(subscriptions) : subscriptions[i].ident = lastCall.ident

\* The pair a handle was opened for and registered under
PairOf(h) == Ident(h.sessionId, h.exchangeId)

\* The pairs a handle was ever registered under
EverRegistered == {subscriptions[i].ident : i \in 1..Len(subscriptions)}

\* C2: remove(k) with k the pair of the latest looked-up handle clears the
\* latest reference; remove of any other pair leaves the latest reference
\* unchanged.
C2_RemoveClearsOnlyItsLatest ==
  [][lastCall'.op = "remove" =>
       IF latestResponseStream # NoLatest
          /\ PairOf(latestResponseStream.value) = lastCall'.ident
       THEN latestResponseStream' = NoLatest
       ELSE latestResponseStream' = latestResponseStream]_vars

\* C3: the latest reference, when set, is the handle the most recent
\* successful lookup returned; registering never changes it; a lookup of a
\* pair nothing is registered under returns none and never changes it.
C3_LatestIsLastLookedUp ==
  /\ [](latestResponseStream # NoLatest => latestResponseStream.value = lastFound)
  /\ [][/\ lastCall'.op = "add" => latestResponseStream' = latestResponseStream
        /\ (lastCall'.op = "get" /\ lastCall'.ident \notin EverRegistered)
             => /\ lastCall'.ret = NoStream
                /\ latestResponseStream' = latestResponseStream]_vars

\* What lookup(id) would return, without its side effect.
Registered(reg, id) == MapGet(reg, getKey(id))

\* C4: two distinct (sessionId, exchangeId) pairs have independent entries:
\* registering under one never replaces the handle of the other, removing one
\* never deletes the other, also for ids that contain '-'.
C4_DistinctPairsIndependent ==
  [][\A other \in Identifiers :
       (lastCall'.op \in {"add", "remove"} /\ other # lastCall'.ident)
         => Registered(responseStreamCollection', other)
              = Registered(responseStreamCollection, other)]_vars

\* The handles registered for a session
RegisteredFor(reg, sessionId) ==
  {reg[i].value : i \in {j \in 1..Len(reg) : reg[j].value.sessionId = sessionId}}

\* The calls of one kind a step made on the streams
Calls(out, op) == {i \in 1..Len(out) : out[i].op = op}

\* Messages that end with 'cancelled by user' in some letter case
CancelMessages ==
  {"Request cancelled by user", "Cancelled By User", "unauthorized access: Cancelled by user"}

\* C5: on a top-level error whose message ends with 'cancelled by user' in
\* any letter case, the dispatcher sets stage 'Cancelled' on the latest stream
\* if there is one, closes and deregisters every stream registered for the
\* event's session, emits no structured error, and returns without raising;
\* a call that has returned handles no further event.
C5_CancelledByUser ==
  [][/\ (lastStep'.act = "pull" /\ lastStep'.ev.kind = "Error"
         /\ lastStep'.ev.a \in CancelMessages)
          => LET out == lastStep'.out
                 latest == latestResponseStream.value
             IN /\ latest # NoStream
                     => /\ out # <<>>
                        /\ out[1].stream = latest.id
                        /\ out[1].op = "stage" /\ out[1].arg = "Cancelled"
                /\ latest = NoStream => Calls(out, "stage") = {}
                /\ \A h \in RegisteredFor(responseStreamCollection, lastStep'.ev.request_id) :
                     /\ h.id \in closed'
                     /\ \A i \in 1..Len(responseStreamCollection') :
                          responseStreamCollection'[i].value # h
                /\ Calls(out, "toolTypeError") = {}
                /\ lastStep'.exit = "returned"
                /\ loops'[lastStep'.loop].pc = "returned"
     /\ \A l \in 1..Len(loops) :
          loops[l].pc \in {"returned", "threw"} => loops'[l] = loops[l]]_vars

\* A cancellation arrived in another letter case while two streams of its
\* session were registered and one of them was the latest: both were closed.
C5_Witness ==
  /\ lastStep.act = "pull" /\ lastStep.ev.kind = "Error"
  /\ lastStep.ev.a = "Cancelled By User"
  /\ lastStep.exit = "returned"
  /\ Calls(lastStep.out, "stage") # {}
  /\ Cardinality({lastStep.out[i].stream : i \in Calls(lastStep.out, "close")}) = 2
  /\ responseStreamCollection = <<>>

\* The step handled an authorization failure: a top-level error whose message
\* contains 'unauthorized access', or the ToolCallError of that name on an
\* exchange whose stream is registered (events without a stream are skipped).
AuthorizationFailure(ev, reg) ==
  \/ ev.kind = "Error" /\ ev.a = "Unauthorized access to API"
  \/ /\ ev.kind = "ToolCallError"
     /\ ev.a = "LLM Client error: Unauthorized access to API"
     /\ Registered(reg, Ident(ev.request_id, ev.exchange_id)) # NoStream

AttemptsOf(req) == {a \in 1..Len(attempts) : attempts[a].req = req}

\* C6: an authorization failure handled during the first attempt of a request
\* starts exactly one more attempt of the same request, with a hard-checked
\* credential and hasRetried = true; one handled during the retried attempt
\* starts none; a request never has more than two attempts.
C6_RetryExactlyOnce ==
  /\ [](\A req \in 1..Len(eventQueue) : Cardinality(AttemptsOf(req)) <= 2)
  /\ [][(lastStep'.act = "pull"
         /\ AuthorizationFailure(lastStep'.ev, responseStreamCollection))
          => LET L == loops[lastStep'.loop]
             IN IF L.auth = "first"
                THEN /\ Len(attempts') = Len(attempts) + 1
                     /\ attempts'[Len(attempts')] =
                          [req |-> attempts[L.attempt].req, hasRetried |-> TRUE,
                           credential |-> "hardCheck", pc |-> "getSession", error |-> ""]
                ELSE Len(attempts') = Len(attempts)]_vars

\* The retried attempt of a request met an authorization failure itself, and
\* the request still has its two attempts.
C6_Witness ==
  /\ lastStep.act = "pull"
  /\ lastStep.ev.kind \in {"Error", "ToolCallError"}
  /\ lastStep.ev.a \in {"Unauthorized access to API",
                        "LLM Client error: Unauthorized access to API"}
  /\ lastStep.loop \in 1..Len(loops)
  /\ loops[lastStep.loop].auth = "retried"
  /\ lastStep.attempt \in 1..Len(attempts)
  /\ attempts[lastStep.attempt].hasRetried
  /\ Cardinality(AttemptsOf(attempts[lastStep.attempt].req)) = 2

\* C7: a top-level error whose message indicates an authorization failure
\* only invokes the unauthorized-retry callback: the step that handles it
\* emits no structured error, sets no stage 'Error' and closes no stream.
C7_UnauthorizedOnlyRetries ==
  [][(lastStep'.act \in {"pull", "errorAlloc"} /\ lastStep'.ev.kind = "Error"
      /\ lastStep'.ev.a = "Unauthorized access to API")
       => /\ Calls(lastStep'.out, "toolTypeError") = {}
          /\ \A i \in Calls(lastStep'.out, "stage") : lastStep'.out[i].arg # "Error"
          /\ Calls(lastStep'.out, "close") = {}
          /\ closed' = closed]_vars

\* The key of a stream's entry in the thinking-text cache
ThinkingKey(id) == streams[id].sessionId \o "-" \o streams[id].exchangeId

\* C8: when a dispatcher call finishes, by returning or by throwing, every
\* stream it resolved is closed, is no longer registered, and has no entry in
\* the thinking-text cache.
C8_CleanupOnEveryExit ==
  [][lastStep'.exit \in {"returned", "threw"}
       => \A id \in lastStep'.resolved :
            /\ id \in closed'
            /\ \A i \in 1..Len(responseStreamCollection') :
                 responseStreamCollection'[i].value.id # id
            /\ ThinkingKey(id) \notin DOMAIN lastThinkingText']_vars

\* C9: no streamResponse call ends rejected: whatever the registry holds and
\* whatever the editor answers when asked for a stream, the error is shown on
\* a stream and not thrown past the driver.
C9_NothingPropagates ==
  \A a \in 1..Len(attempts) : attempts[a].pc # "rejected"

\* The reportAgentEventsToChat calls that have not finished
ActiveLoops == {l \in 1..Len(loops) : loops[l].pc \in {"pull", "errorAlloc", "catchAlloc"}}

\* C10: at most one dispatcher loop is active for a (session, exchange) pair,
\* whether handleEvent, the unauthorized retry or the cancellation listener
\* started it.
C10_OneLoopPerPair ==
  \A l1, l2 \in ActiveLoops : loops[l1].ident = loops[l2].ident => l1 = l2

\* The step in which a dispatcher finishes after SidecarConnectionFailedError:
\* at the end of a sequence that never set streamStarted, or when the catch
\* block that caught the error resumes.
EndedUnstarted(l) ==
  \/ lastStep'.act = "end" /\ ~loops[l].streamStarted
  \/ /\ lastStep'.act = "catchAlloc" /\ lastStep'.exit # ""
     /\ loops[l].error = ConnectionFailedMessage

\* C11: a dispatcher whose event sequence ends with streamStarted never set
\* raises the connection failure to its caller, and the driver, on its first
\* attempt, starts the request once more.
C11_ConnectionFailedRetried ==
  [][\A l \in 1..Len(loops) :
       (lastStep'.loop = l /\ EndedUnstarted(l))
         => /\ lastStep'.exit # "returned"
            /\ (loops[l].auth = "first" /\ lastStep'.exit = "threw")
                 => /\ Len(attempts') = Len(attempts) + 1
                    /\ attempts'[Len(attempts')].req = attempts[loops[l].attempt].req]_vars

\* The kinds of event that go through stream resolution
ResolvingKinds ==
  {"OpenFile", "ToolThinking", "ToolParameterFound", "ToolUseDetected", "ToolCallError",
   "SymbolEvent", "SymbolEventSubStep", "ChatEvent", "PlanEvent", "PlansExchangeState",
   "EditsExchangeState", "FinishedExchange"}

\* The calls stage("Loading...") among the calls of a step
LoadingCalls(out) == {i \in Calls(out, "stage") : out[i].arg = "Loading..."}

\* C12: stage 'Loading...' is emitted exactly once for each (session,
\* exchange) pair: by the first event that resolves the pair's stream, and by
\* no later event of the pair, in this dispatcher call or any other.
C12_LoadingExactlyOnce ==
  [][(lastStep'.act = "pull" /\ lastStep'.ev.kind \in ResolvingKinds
      /\ Registered(responseStreamCollection,
                    Ident(lastStep'.ev.request_id, lastStep'.ev.exchange_id)) # NoStream)
       => LET pair == Ident(lastStep'.ev.request_id, lastStep'.ev.exchange_id)
          IN IF pair \in loadingEmitted
             THEN LoadingCalls(lastStep'.out) = {}
             ELSE Cardinality(LoadingCalls(lastStep'.out)) = 1]_vars

\* String.prototype.startsWith, for the texts of the claim below
IsPrefix(p, t) == Len(p) <= Len(t) /\ SubSeq(t, 1, Len(p)) = p

\* C13: when the last ToolThinking text handled for an exchange is t1 and the
\* next one, t2, extends it, the event emits one markdown line holding only
\* the part of t2 after t1, and no markdown at all when t2 = t1.
C13_ThinkingDelta ==
  [][(lastStep'.act = "pull" /\ lastStep'.ev.kind = "ToolThinking"
      /\ Registered(responseStreamCollection,
                    Ident(lastStep'.ev.request_id, lastStep'.ev.exchange_id)) # NoStream
      /\ Ident(lastStep'.ev.request_id, lastStep'.ev.exchange_id) \in DOMAIN lastThought
      /\ IsPrefix(lastThought[Ident(lastStep'.ev.request_id, lastStep'.ev.exchange_id)],
                  lastStep'.ev.a))
       => LET t1 == lastThought[Ident(lastStep'.ev.request_id, lastStep'.ev.exchange_id)]
              t2 == lastStep'.ev.a
              out == lastStep'.out
              suffix == SubSeq(t2, Len(t1) + 1, Len(t2))
          IN IF t2 = t1
             THEN Calls(out, "markdown") = {}
             ELSE /\ Cardinality(Calls(out, "markdown")) = 1
                  /\ \A i \in Calls(out, "markdown") :
                       out[i].arg \in {suffix, suffix \o "\n"}]_vars

\* The handle registered under the pair of its own session and exchange
StreamOf(reg, sessionId, exchangeId) ==
  {h \in RegisteredFor(reg, sessionId) : h.exchangeId = exchangeId}

\* The step handled 'AttemptCompletion' for an exchange whose stream is registered
AttemptCompletionStep ==
  /\ lastStep'.act = "pull" /\ lastStep'.ev.kind = "ToolUseDetected"
  /\ lastStep'.ev.a = "AttemptCompletion"
  /\ StreamOf(responseStreamCollection, lastStep'.ev.request_id, lastStep'.ev.exchange_id) # {}

\* C14: a ToolUseDetected event with key 'AttemptCompletion' for a registered
\* exchange sets stage 'Complete' once, on that exchange's stream, closes and
\* deregisters every stream registered for the session, and makes the call
\* return: it raises nothing, reports no error, and pulls no further event.
C14_AttemptCompletionEndsLoop ==
  [][/\ AttemptCompletionStep
       => LET out == lastStep'.out
              l == lastStep'.loop
          IN /\ \A h \in StreamOf(responseStreamCollection, lastStep'.ev.request_id,
                                   lastStep'.ev.exchange_id) :
                  /\ Cardinality({i \in Calls(out, "stage") : out[i].arg = "Complete"}) = 1
                  /\ \A i \in Calls(out, "stage") :
                       out[i].arg = "Complete" => out[i].stream = h.id /\ ~out[i].closedBefore
             /\ \A h \in RegisteredFor(responseStreamCollection, lastStep'.ev.request_id) :
                  /\ h.id \in closed'
                  /\ \A i \in 1..Len(responseStreamCollection') :
                       responseStreamCollection'[i].value # h
             /\ Calls(out, "toolTypeError") = {}
             /\ lastStep'.exit = "returned"
             /\ loops'[l].pc = "returned"
     /\ \A l \in 1..Len(loops) :
          loops[l].pc = "returned"
            => ~(lastStep'.loop = l
                 /\ lastStep'.act \in {"pull", "end", "streamThrows", "errorAlloc", "catchAlloc"})]_vars

\* 'AttemptCompletion' arrived for one of two registered exchanges of its
\* session: both streams were closed and the call returned.
C14_Witness ==
  /\ lastStep.act = "pull" /\ lastStep.ev.kind = "ToolUseDetected"
  /\ lastStep.ev.a = "AttemptCompletion"
  /\ lastStep.exit = "returned"
  /\ \E i \in Calls(lastStep.out, "stage") : lastStep.out[i].arg = "Complete"
  /\ Cardinality({lastStep.out[i].stream : i \in Calls(lastStep.out, "close")}) = 2
  /\ responseStreamCollection = <<>>

\* The step is the control server handling a request of this kind
EditStep(event) == lastEdit'.n = lastEdit.n + 1 /\ lastEdit'.request.event = event

\* The lines, each followed by its terminator, one after the other
RECURSIVE JoinLines(_)
JoinLines(lines) ==
  IF lines = <<>> THEN "" ELSE Head(lines) \o "\n" \o JoinLines(Tail(lines))

\* The End of an edit stream whose Start found its file and whose Deltas
\* carried a text of terminated lines
EndOfRun(id) ==
  /\ EditStep("End") /\ lastEdit'.request.edit_request_id = id
  /\ id \in DOMAIN editRuns
  /\ editRuns[id].file \in {"opened", "created"}
  /\ editRuns[id].ends = 0
  /\ editRuns[id].text = "" \/ endsWith(editRuns[id].text, "\n")

\* What C15 says of such an End: the lines handed over since the Start are
\* the lines of the text, in order and once each; the End hands over none
\* itself; cleanup and save ran once, in the End.
RunComplete(id) ==
  /\ JoinLines(editRuns'[id].handed) = editRuns'[id].text
  /\ \A i \in 1..Len(editRuns'[id].handed) : ~includes(editRuns'[id].handed[i], "\n")
  /\ lastEdit'.lines = <<>>
  /\ editRuns[id].cleanups = 0 /\ editRuns[id].saves = 0
  /\ lastEdit'.cleanups = 1 /\ lastEdit'.saves = 1

\* C15 as stated: for every edit_request_id, Start, Deltas whose fragments
\* join to a text of n terminated lines, and End hand exactly those n lines to
\* processLine, in order and once each, none of them in the End, and run
\* cleanup and save once, in the End.
C15_Original ==
  [][\A id \in EditRequestIds : EndOfRun(id) => RunComplete(id)]_vars

\* C15, amended: the same, for an edit stream of which every request was
\* either flagged apply_directly or found a stream registered for its session
\* and exchange; a request that is neither is answered success = false and
\* does nothing.
C15_LinesOnceInOrder ==
  [][\A id \in EditRequestIds :
       (EndOfRun(id) /\ ~editRuns'[id].refused) => RunComplete(id)]_vars

\* An edit stream ended whose two lines came in two fragments, the first of
\* which completed one line and began the next.
C15_Witness ==
  /\ lastEdit.request.event = "End" /\ lastEdit.ret = "true"
  /\ lastEdit.request.edit_request_id \in DOMAIN editRuns
  /\ LET run == editRuns[lastEdit.request.edit_request_id]
     IN /\ run.text = "a\nb\n" /\ run.deltas = 2
        /\ run.handed = <<"a", "b">>
        /\ run.cleanups = 1 /\ run.saves = 1

\* C16: an End for an edit_request_id that has no session (ended already, or
\* never started) changes nothing, runs no cleanup or save, leaves the edit
\* counter alone, and does not fail.
C16_EndIdempotent ==
  [][(EditStep("End") /\ lastEdit'.request.edit_request_id \notin DOMAIN editsMap)
       => /\ lastEdit'.ret # "threw"
          /\ editsMap' = editsMap
          /\ editCounter' = editCounter
          /\ lastEdit'.cleanups = 0 /\ lastEdit'.saves = 0]_vars

\* C17: a Delta for an edit_request_id that has no session opens none, hands
\* no line to processLine, and leaves every session as it was.
C17_DeltaWithoutSession ==
  [][(EditStep("Delta") /\ lastEdit'.request.edit_request_id \notin DOMAIN editsMap)
       => /\ editsMap' = editsMap
          /\ lastEdit'.lines = <<>>
          /\ lastEdit'.ret # "threw"
          /\ editCounter' = editCounter]_vars

\* A fragment of two lines arrived, and was let in, for an edit stream that
\* had ended, while another edit stream was open.
C17_Witness ==
  /\ lastEdit.request.event = "Delta" /\ lastEdit.request.delta = "a\nb\n"
  /\ ~lastEdit.refused
  /\ lastEdit.request.edit_request_id \notin DOMAIN editsMap
  /\ lastEdit.request.edit_request_id \in DOMAIN editRuns
  /\ editRuns[lastEdit.request.edit_request_id].ends = 1
  /\ editsMap # <<>>

\* C18: a Delta with an empty fragment on an open edit stream hands no line to
\* processLine and leaves the accumulator and every session as they were.
C18_EmptyFragment ==
  [][(EditStep("Delta") /\ lastEdit'.request.delta = ""
      /\ lastEdit'.request.edit_request_id \in DOMAIN editsMap)
       => /\ lastEdit'.lines = <<>>
          /\ editsMap' = editsMap
          /\ editCounter' = editCounter
          /\ lastEdit'.ret # "threw"]_vars

\* An empty fragment arrived, and was let in, while the accumulator held the
\* start of a line.
C18_Witness ==
  /\ lastEdit.request.event = "Delta" /\ lastEdit.request.delta = ""
  /\ ~lastEdit.refused
  /\ lastEdit.request.edit_request_id \in DOMAIN editsMap
  /\ editsMap[lastEdit.request.edit_request_id].answerSplitter.accumulator = "b"

\* C19: a Start whose file can neither be opened nor created answers
\* success = false, shows the error message, opens no session, and leaves the
\* sessions, the registered streams, and the dispatcher calls as they were.
C19_StartFails ==
  [][(EditStep("Start") /\ ~lastEdit'.refused /\ lastEdit'.file = "failed")
       => /\ lastEdit'.ret = "false"
          /\ lastEdit'.errors = <<FileCreationFailed(FsFilePath)>>
          /\ editsMap' = editsMap
          /\ loops' = loops /\ attempts' = attempts
          /\ eventQueue' = eventQueue /\ processingEvents' = processingEvents
          /\ responseStreamCollection' = responseStreamCollection
          /\ closed' = closed
          /\ lastEdit'.out = <<>>]_vars

\* A Start failed on its file while a dispatcher call was waiting for its
\* next event and the other edit stream was open.
C19_Witness ==
  /\ lastEdit.request.event = "Start" /\ lastEdit.file = "failed"
  /\ lastEdit.ret = "false" /\ lastEdit.errors # <<>>
  /\ DOMAIN editsMap = EditRequestIds \ {lastEdit.request.edit_request_id}
  /\ \E l \in 1..Len(loops) : loops[l].pc = "pull"

\* The step is the control server handling an undo request
UndoStep == EditStep("Undo")

\* C20: undoToCheckpoint answers success = false and emits nothing when no
\* stream is registered for the session and exchange of the request; when one
\* is, it sends that stream one edit, a deletion of the empty range at 0:0
\* that needs no confirmation, labelled with the exchange id, followed by
\* '::' and the plan step index if there is one, and answers success = true.
C20_UndoToCheckpoint ==
  [][UndoStep
       => LET request == lastEdit'.request
              mine == StreamOf(responseStreamCollection, request.session_id,
                               request.exchange_id)
              label == IF request.index = "null" THEN request.exchange_id
                       ELSE request.exchange_id \o "::" \o request.index
          IN IF mine = {}
             THEN /\ lastEdit'.ret = "false"
                  /\ lastEdit'.out = <<>>
                  /\ lastEdit'.workspaceEdits = <<>>
             ELSE /\ lastEdit'.ret = "true"
                  /\ Len(lastEdit'.out) = 1
                  /\ lastEdit'.out[1].op = "codeEdit"
                  /\ \A h \in mine : lastEdit'.out[1].stream = h.id
                  /\ lastEdit'.workspaceEdits =
                       <<[uri |-> "/undoCheck", range |-> <<0, 0, 0, 0>>, label |-> label,
                          needsConfirmation |-> FALSE]>>]_vars

\* C21: provideEdit hands a request flagged apply_directly to
\* applyEditsDirectly, whatever streams there are, and returns success with
\* the request's path; a request not so flagged is handed to applyEdits only
\* with the open stream of the turn, and applies no edit when there is none.
C21_ApplyEdit ==
  [][EditStep("Apply")
       => LET request == lastEdit'.request
              edits == lastEdit'.workspaceEdits
          IN /\ lastEdit'.out = <<>>
             /\ request.apply_directly
                  => /\ edits = <<[via |-> "applyEditsDirectly", stream |-> 0,
                                   fs_file_path |-> request.fs_file_path]>>
                     /\ lastEdit'.ret = "true"
                     /\ lastEdit'.path = request.fs_file_path
             /\ ~request.apply_directly
                  => /\ \A i \in 1..Len(edits) :
                          /\ edits[i].via = "applyEdits"
                          /\ openResponseStream # NoStream
                          /\ edits[i].stream = openResponseStream.id
                     /\ openResponseStream = NoStream => edits = <<>>
             /\ UNCHANGED <<regVars, cacheVars, editsMap, editCounter>>]_vars

\* A request not flagged apply_directly arrived while its exchange had a
\* registered stream, after one that was flagged: it applied nothing.
C21_Witness ==
  /\ lastEdit.request.event = "Apply" /\ ~lastEdit.request.apply_directly
  /\ lastEdit.n >= 2
  /\ lastEdit.workspaceEdits = <<>>
  /\ Registered(responseStreamCollection,
                Ident(lastEdit.request.session_id, lastEdit.request.exchange_id)) # NoStream

\* The registered handles whose cancellation token fires in the step
Cancelling ==
  {h \in {responseStreamCollection[i].value : i \in 1..Len(responseStreamCollection)} :
     h.id \in cancelledTokens' \ cancelledTokens}

\* C22: when the cancellation token of a registered handle fires, one cancel
\* call is made, for the session and exchange of that handle, and one
\* dispatcher call is started for that session on the events it returns,
\* without authorization callbacks; every dispatcher call already there is
\* left as it was.
C22_CancelSideCall ==
  [][\A h \in Cancelling :
       /\ Len(loops') = Len(loops) + 1
       /\ loops'[Len(loops')].origin = "cancel"
       /\ loops'[Len(loops')].ident = Ident(h.sessionId, h.exchangeId)
       /\ loops'[Len(loops')].sessionId = h.sessionId
       /\ loops'[Len(loops')].pc = "pull"
       /\ loops'[Len(loops')].auth = "none"
       /\ \A l \in 1..Len(loops) : loops'[l] = loops[l]
       /\ UNCHANGED <<regVars, cacheVars, attempts>>]_vars

\* The dispatcher call a cancellation started has handled an event while the
\* call of the request was still waiting for its next one.
C22_Witness ==
  /\ lastStep.act = "pull" /\ lastStep.loop \in 1..Len(loops)
  /\ loops[lastStep.loop].origin = "cancel"
  /\ \E l \in 1..Len(loops) : loops[l].origin # "cancel" /\ loops[l].pc = "pull"

\* C23: the search probes the ports one by one upwards from 42427; it comes
\* to an end whatever the probes answer; it ends with the first port whose
\* probe succeeded, on which the server then listens and which editorUrl
\* names; when every port up to the end of the port space has failed it ends
\* with no port, the server does not listen and editorUrl is not set.
C23_PortSearch ==
  /\ [](/\ \A i \in 1..Len(portSearch.probes) :
             /\ portSearch.probes[i].port = DefaultPort + i - 1
             /\ portSearch.probes[i].open => i = Len(portSearch.probes)
        /\ portSearch.pc = "listening"
             => /\ portSearch.probes # <<>>
                /\ portSearch.probes[Len(portSearch.probes)].open
                /\ portSearch.listening = portSearch.probes[Len(portSearch.probes)].port
                /\ editorUrl = "http://localhost:" \o ToString(portSearch.listening)
        /\ portSearch.pc = "failed"
             => /\ Len(portSearch.probes) = PortSpaceEnd - DefaultPort
                /\ \A i \in 1..Len(portSearch.probes) : ~portSearch.probes[i].open
                /\ portSearch.listening = 0
                /\ editorUrl = ""
        /\ portSearch.pc \in {"probing", "found"}
             => portSearch.listening = 0 /\ editorUrl = "")
  /\ <>(portSearch.pc \in {"listening", "failed"})

\* The server listens on the third port, the first two having been taken.
C23_Witness ==
  /\ portSearch.pc = "listening"
  /\ portSearch.listening = DefaultPort + 2
  /\ Len(portSearch.probes) = 3
  /\ editorUrl = "http://localhost:42429"

\* The step finishes the handling of a top-level error that is neither a
\* cancellation nor an authorization failure: at once when there is a latest
\* stream, or when createNewResponseStream has answered
GenericErrorStep ==
  /\ lastStep'.ev.kind = "Error"
  /\ ~isCancelledByUser(lastStep'.ev.a) /\ ~isUnauthorized(lastStep'.ev.a)
  /\ \/ lastStep'.act = "pull" /\ latestResponseStream # NoLatest
     \/ lastStep'.act = "errorAlloc"

\* C24: such an error is reported once, as a structured error, on the latest
\* stream or, when there is none, on the stream of a newly opened exchange:
\* the format message when the error ends with 'wrong tool output', else the
\* error followed by the request to report it; stage 'Error' is set on the
\* same stream, every stream registered for the session is closed and
\* deregistered, and the call returns.
C24_GenericError ==
  [][GenericErrorStep
       => LET out == lastStep'.out
              target == IF lastStep'.act = "pull" THEN latestResponseStream.value.id
                        ELSE Len(streams')
          IN /\ lastStep'.act = "errorAlloc" => Len(streams') = Len(streams) + 1
             /\ Cardinality(Calls(out, "toolTypeError")) = 1
             /\ \A i \in Calls(out, "toolTypeError") :
                  /\ out[i].stream = target
                  /\ out[i].arg = IF endsWith(toLowerCase(lastStep'.ev.a), "wrong tool output")
                                  THEN FormatErrorMessage
                                  ELSE lastStep'.ev.a \o ReportSuffix
             /\ \E i \in Calls(out, "stage") : out[i].stream = target /\ out[i].arg = "Error"
             /\ \A h \in RegisteredFor(responseStreamCollection, lastStep'.ev.request_id) :
                  /\ h.id \in closed'
                  /\ \A i \in 1..Len(responseStreamCollection') :
                       responseStreamCollection'[i].value # h
             /\ lastStep'.exit = "returned"]_vars

\* The same when a stream is there to show the error on: the latest one, or a
\* new one whose composite key is not in the registry
C24_WithStream ==
  [][(/\ GenericErrorStep
      /\ lastStep'.act = "errorAlloc"
           => /\ Len(streams') = Len(streams) + 1
              /\ Registered(responseStreamCollection,
                            Ident(streams'[Len(streams')].sessionId,
                                  streams'[Len(streams')].exchangeId)) = NoStream)
       => LET out == lastStep'.out
              target == IF lastStep'.act = "pull" THEN latestResponseStream.value.id
                        ELSE Len(streams')
          IN /\ lastStep'.act = "errorAlloc" => Len(streams') = Len(streams) + 1
             /\ Cardinality(Calls(out, "toolTypeError")) = 1
             /\ \A i \in Calls(out, "toolTypeError") :
                  /\ out[i].stream = target
                  /\ out[i].arg = IF endsWith(toLowerCase(lastStep'.ev.a), "wrong tool output")
                                  THEN FormatErrorMessage
                                  ELSE lastStep'.ev.a \o ReportSuffix
             /\ \E i \in Calls(out, "stage") : out[i].stream = target /\ out[i].arg = "Error"
             /\ \A h \in RegisteredFor(responseStreamCollection, lastStep'.ev.request_id) :
                  /\ h.id \in closed'
                  /\ \A i \in 1..Len(responseStreamCollection') :
                       responseStreamCollection'[i].value # h
             /\ lastStep'.exit = "returned"]_vars

\* ------------------------------------------------- exchange-state events
\* The exchange-state sub-events: the three kinds with a 'Cancelled' state,
\* the two kinds with 'MarkedComplete', and FinishedExchange
ExchangeStatePayloads ==
  {<<"PlansExchangeState", "Cancelled", "", "">>,
   <<"EditsExchangeState", "Cancelled", "", "">>,
   <<"ExecutionState", "Cancelled", "", "">>,
   <<"PlansExchangeState", "MarkedComplete", "", "">>,
   <<"EditsExchangeState", "MarkedComplete", "", "">>,
   <<"FinishedExchange", "", "", "">>}

\* The events the sidecar sends in the exchange-state specification
ExchangeEvents ==
  Enveloped(ExchangeStatePayloads \cup ChatPayloads, DriverIdents)
  \cup Enveloped({<<"Error", "boom", "", "">>}, {Ident("s", "e")})

Exchange ==
  [streams |-> MaxOpenStreams, requests |-> MaxRequests, loops |-> MaxDispatchers,
   pulls |-> MaxEvents, events |-> ExchangeEvents, modes |-> Requests]

\* One request, one dispatcher, exchange-state events
NextExchange ==
  \/ HandleEvent(Exchange)
  \/ SessionAcquired(Exchange)
  \/ CallReturned(Exchange)
  \/ CallThrows
  \/ DriverCatchResume(Exchange)
  \/ Pull(Exchange)
  \/ EndOfStream(Exchange)
  \/ StreamThrows(Exchange)
  \/ ErrorAllocResume(Exchange)
  \/ CatchAllocResume(Exchange)
  \/ NewExchange(Exchange)
  \/ CancelToken(Exchange)
  \/ PortFound

SpecExchange == Init /\ [][NextExchange]_vars

\* The step handled a 'Cancelled' exchange state for an exchange whose stream
\* is registered
CancelledStateStep ==
  /\ lastStep'.act = "pull"
  /\ lastStep'.ev.kind \in {"PlansExchangeState", "EditsExchangeState", "ExecutionState"}
  /\ lastStep'.ev.a = "Cancelled"
  /\ StreamOf(responseStreamCollection, lastStep'.ev.request_id, lastStep'.ev.exchange_id) # {}

\* C25: a 'Cancelled' state of any of the three exchange-state kinds, for an
\* exchange whose stream is registered, sets stage 'Cancelled' on that
\* exchange's stream and marks its last message complete.
C25_CancelledState ==
  [][CancelledStateStep
       => LET out == lastStep'.out IN
          \A h \in StreamOf(responseStreamCollection, lastStep'.ev.request_id,
                            lastStep'.ev.exchange_id) :
            /\ \E i \in Calls(out, "stage") : out[i].stream = h.id /\ out[i].arg = "Cancelled"
            /\ \E i \in Calls(out, "markLastMessageAsComplete") : out[i].stream = h.id]_vars

\* The same for the plan and edits kinds alone
C25_PlanAndEdits ==
  [][CancelledStateStep /\ lastStep'.ev.kind # "ExecutionState"
       => LET out == lastStep'.out IN
          \A h \in StreamOf(responseStreamCollection, lastStep'.ev.request_id,
                            lastStep'.ev.exchange_id) :
            /\ \E i \in Calls(out, "stage") : out[i].stream = h.id /\ out[i].arg = "Cancelled"
            /\ \E i \in Calls(out, "markLastMessageAsComplete") : out[i].stream = h.id]_vars

\* The step handled an execution-state 'Cancelled' sub-event
ExecutionCancelledStep ==
  /\ lastStep'.act = "pull"
  /\ lastStep'.ev.kind = "ExecutionState" /\ lastStep'.ev.a = "Cancelled"

Skipped ==
  /\ lastStep'.out = <<>>
  /\ responseStreamCollection' = responseStreamCollection
  /\ latestResponseStream' = latestResponseStream
  /\ closed' = closed
  /\ startedStreams' = startedStreams
  /\ lastThinkingText' = lastThinkingText
  /\ lastStep'.exit = ""
  /\ loops'[lastStep'.loop].pc = "pull"
  /\ loops'[lastStep'.loop].streamStarted = loops[lastStep'.loop].streamStarted
  /\ loops'[lastStep'.loop].pulls = loops[lastStep'.loop].pulls + 1

\* C27: an event that carries a (session, exchange) pair for which no stream
\* is registered is skipped: it calls no stream, changes neither the registry,
\* the latest reference, the started-streams set nor the thinking-text cache,
\* and leaves the loop waiting for its next event.
C27_UnregisteredSkipped ==
  [][(/\ lastStep'.act = "pull" /\ lastStep'.ev.kind \in ResolvingKinds
      /\ StreamOf(responseStreamCollection, lastStep'.ev.request_id,
                  lastStep'.ev.exchange_id) = {})
       => Skipped]_vars

\* The same for the events whose composite key is not in the registry
C27_AbsentKeySkipped ==
  [][(/\ lastStep'.act = "pull" /\ lastStep'.ev.kind \in ResolvingKinds
      /\ Registered(responseStreamCollection,
                    Ident(lastStep'.ev.request_id, lastStep'.ev.exchange_id)) = NoStream)
       => Skipped]_vars

\* The step handled a 'MarkedComplete' plan or edits state, or a
\* FinishedExchange, for an exchange whose stream is registered
CompletingStep ==
  /\ lastStep'.act = "pull"
  /\ \/ /\ lastStep'.ev.kind \in {"PlansExchangeState", "EditsExchangeState"}
        /\ lastStep'.ev.a = "MarkedComplete"
     \/ lastStep'.ev.kind = "FinishedExchange"
  /\ StreamOf(responseStreamCollection, lastStep'.ev.request_id, lastStep'.ev.exchange_id) # {}

\* The streams in the registry
RegisteredStreams(reg) == {reg[i].value : i \in 1..Len(reg)}

\* C28: a 'MarkedComplete' plan or edits state and a FinishedExchange, for a
\* registered exchange, set stage 'Complete' on that exchange's stream, close
\* it and deregister it, and leave every other registered stream registered
\* and as open as it was; 'MarkedComplete' makes the call return, and
\* FinishedExchange leaves the loop waiting for its next event.
C28_CompleteOneExchange ==
  [][CompletingStep
       => LET out == lastStep'.out
              mine == StreamOf(responseStreamCollection, lastStep'.ev.request_id,
                               lastStep'.ev.exchange_id)
          IN /\ \A h \in mine :
                  /\ \E i \in Calls(out, "stage") : out[i].stream = h.id /\ out[i].arg = "Complete"
                  /\ \E i \in Calls(out, "close") : out[i].stream = h.id
                  /\ h.id \in closed'
             /\ RegisteredStreams(responseStreamCollection')
                  = RegisteredStreams(responseStreamCollection) \ mine
             /\ closed' = closed \cup {h.id : h \in mine}
             /\ \A i \in 1..Len(out) : \E h \in mine : out[i].stream = h.id
             /\ Calls(out, "toolTypeError") = {}
             /\ IF lastStep'.ev.kind = "FinishedExchange"
                THEN lastStep'.exit = "" /\ loops'[lastStep'.loop].pc = "pull"
                ELSE lastStep'.exit = "returned" /\ loops'[lastStep'.loop].pc = "returned"]_vars

\* 'MarkedComplete' arrived for one of two registered exchanges of its session:
\* its stream was closed, the other one is registered and open, and the call
\* returned.
C28_Witness ==
  /\ lastStep.act = "pull"
  /\ lastStep.ev.kind = "EditsExchangeState" /\ lastStep.ev.a = "MarkedComplete"
  /\ lastStep.exit = "returned"
  /\ Calls(lastStep.out, "close") # {}
  /\ \E h \in RegisteredFor(responseStreamCollection, lastStep.ev.request_id) :
       h.exchangeId # lastStep.ev.exchange_id /\ h.id \notin closed

\* The step handled a ToolCallError for an exchange whose stream is registered
ToolCallErrorStep ==
  /\ lastStep'.act = "pull" /\ lastStep'.ev.kind = "ToolCallError"
  /\ StreamOf(responseStreamCollection, lastStep'.ev.request_id, lastStep'.ev.exchange_id) # {}

\* What the claim has the step show on the stream h for the error string:
\* a stage, and a structured error ("" for none)
ShownFor(error_string) ==
  IF error_string = "Cancelled Response" THEN [stage |-> "Cancelled", message |-> ""]
  ELSE IF error_string = UnauthorizedToolError
  THEN [stage |-> "Error", message |-> "Invalid session"]
  ELSE IF error_string = "LLM Client error: Rate limit exceeded"
  THEN [stage |-> "Error", message |-> "Usage limit exceeded. Please upgrade."]
  ELSE [stage |-> "Error", message |-> FormatErrorMessage]

\* The step showed the outcome of its error string on the event's stream,
\* closed and deregistered every stream registered for the session, and made
\* the call return
ToolCallErrorHandled ==
  LET out == lastStep'.out
      shown == ShownFor(lastStep'.ev.a)
  IN /\ \A h \in StreamOf(responseStreamCollection, lastStep'.ev.request_id,
                          lastStep'.ev.exchange_id) :
          /\ \E i \in Calls(out, "stage") : out[i].stream = h.id /\ out[i].arg = shown.stage
          /\ {out[i].arg : i \in Calls(out, "toolTypeError")} = {shown.message} \ {""}
          /\ \A i \in Calls(out, "toolTypeError") : out[i].stream = h.id
     /\ \A h \in RegisteredFor(responseStreamCollection, lastStep'.ev.request_id) :
          /\ h.id \in closed'
          /\ \A i \in 1..Len(responseStreamCollection') :
               responseStreamCollection'[i].value # h
     /\ lastStep'.exit = "returned"
     /\ loops'[lastStep'.loop].pc = "returned"

\* C29: a ToolCallError for a registered exchange shows the outcome of its
\* error string on the exchange's stream (stage 'Cancelled'; 'Invalid
\* session', the usage-limit message or the format message with stage
\* 'Error'), closes and deregisters every stream registered for the session,
\* and makes the call return.
C29_ToolCallError ==
  [][ToolCallErrorStep => ToolCallErrorHandled]_vars

\* The same, but for the unauthorized error string in a call that is not the
\* retried one
C29_ExceptFirstUnauthorized ==
  [][(/\ ToolCallErrorStep
      /\ ~(lastStep'.ev.a = UnauthorizedToolError /\ loops[lastStep'.loop].auth # "retried"))
       => ToolCallErrorHandled]_vars

\* The step handled a start acknowledgement
StartAckStep(started) ==
  /\ lastStep'.act = "pull" /\ lastStep'.ev.kind = "started" /\ lastStep'.ev.a = started

\* The step left its dispatcher call failing: thrown to the caller, or in its
\* catch block waiting for a stream to show the error on
Raised ==
  \/ lastStep'.exit = "threw"
  \/ lastStep'.exit = "" /\ loops'[lastStep'.loop].pc = "catchAlloc"

\* C30: a start acknowledgement with started = false makes the dispatcher call
\* fail with the connection-failed error, which its caller gets, and the call
\* pulls no further event; one with started = true changes nothing and the
\* loop waits for its next event.
C30_StartAck ==
  [][/\ StartAckStep("false")
          => /\ Raised
             /\ loops'[lastStep'.loop].pc # "pull"
             /\ Calls(lastStep'.out, "toolTypeError") = {}
     /\ StartAckStep("true") => Skipped]_vars

\* What holds of it: after started = false the call pulls no further event,
\* and when it does not throw it has shown the connection-failed message with
\* stage 'Error' on the latest stream and returned
C30_ShownAndReturned ==
  [][/\ StartAckStep("false")
          => /\ loops'[lastStep'.loop].pc # "pull"
             /\ ~Raised
                  => LET out == lastStep'.out IN
                     /\ latestResponseStream # NoLatest
                     /\ lastStep'.exit = "returned"
                     /\ \E i \in Calls(out, "toolTypeError") :
                          /\ out[i].stream = latestResponseStream.value.id
                          /\ out[i].arg = ConnectionFailedMessage \o ". Please try again."
                     /\ \E i \in Calls(out, "stage") : out[i].arg = "Error"
     /\ StartAckStep("true") => Skipped]_vars

\* The steps in which a dispatcher call takes something from its sequence
SequenceSteps == {"pull", "end", "streamThrows"}

\* C31: within one dispatcher call the effects follow the arrival order: the
\* call takes the next event of its sequence only when the previous event is
\* handled to its end; while an event awaits createNewResponseStream it stays
\* the call's pending event, the step that resumes it makes the calls of that
\* event, and the call returns without taking another event.
C31_EffectsInArrivalOrder ==
  [][\A l \in 1..Len(loops) :
       /\ (lastStep'.loop = l /\ lastStep'.act \in SequenceSteps)
            => loops[l].pc = "pull" /\ loops[l].pending = NoEvent
       /\ (lastStep'.loop = l /\ lastStep'.act = "errorAlloc")
            => /\ loops[l].pc = "errorAlloc"
               /\ lastStep'.ev = loops[l].pending
               /\ lastStep'.exit = "returned"
               /\ loops'[l].pc = "returned"
       /\ (loops[l].pc = "errorAlloc" /\ lastStep'.loop # l) => loops'[l] = loops[l]
       /\ loops'[l].pc = "errorAlloc" => loops'[l].pending.kind = "Error"]_vars

\* An error event waited for a new stream, and the step that resumed it made
\* its calls on the stream and ended the call
C31_Witness ==
  /\ lastStep.act = "errorAlloc"
  /\ lastStep.ev.kind = "Error"
  /\ Calls(lastStep.out, "toolTypeError") # {}
  /\ lastStep.exit = "returned"

\* ------------------------------------------------- the thinking-text cache
\* The events the sidecar sends in the cache specification: cumulative
\* thinking texts, the plan state that marks the last message complete, the
\* event that closes one exchange, and an error
CacheEvents ==
  Enveloped({<<"ToolThinking", t, "", "">> : t \in ThinkingTexts}
            \cup {<<"PlansExchangeState", "Cancelled", "", "">>,
                  <<"FinishedExchange", "", "", "">>},
            {Ident("s", "x-e"), Ident("s-x", "e")})
  \cup Enveloped({<<"Error", "boom", "", "">>}, {Ident("s", "e")})

Cache ==
  [streams |-> MaxOpenStreams, requests |-> MaxRequests, loops |-> MaxDispatchers,
   pulls |-> MaxThoughts, events |-> CacheEvents, modes |-> Requests]

\* One request, one dispatcher, thinking texts between mark-complete and close
NextCache ==
  \/ HandleEvent(Cache)
  \/ SessionAcquired(Cache)
  \/ CallReturned(Cache)
  \/ CallThrows
  \/ DriverCatchResume(Cache)
  \/ Pull(Cache)
  \/ EndOfStream(Cache)
  \/ StreamThrows(Cache)
  \/ ErrorAllocResume(Cache)
  \/ CatchAllocResume(Cache)
  \/ NewExchange(Cache)
  \/ CancelToken(Cache)
  \/ PortFound

SpecCache == Init /\ [][NextCache]_vars

\* The step handled a ToolThinking event on a stream whose exchange has no
\* entry in the cache: the whole text is emitted
FullTextEmitted ==
  (/\ lastStep'.act = "pull" /\ lastStep'.ev.kind = "ToolThinking"
   /\ Registered(responseStreamCollection,
                 Ident(lastStep'.ev.request_id, lastStep'.ev.exchange_id)) # NoStream
   /\ getKey(Ident(lastStep'.ev.request_id, lastStep'.ev.exchange_id))
        \notin DOMAIN lastThinkingText)
    => \E i \in Calls(lastStep'.out, "markdown") :
         lastStep'.out[i].arg = lastStep'.ev.a \o "\n"

\* The step evicted the entry of every stream it closed or marked complete
Evicted ==
  \A i \in Calls(lastStep'.out, "close") \cup Calls(lastStep'.out, "markLastMessageAsComplete") :
    getKey(streams'[lastStep'.out[i].stream]) \notin DOMAIN lastThinkingText'

\* C32: the thinking-text cache holds an entry only for (session, exchange)
\* pairs whose stream is registered; a step that closes a stream or marks its
\* last message complete evicts the entry, and a ToolThinking event for an
\* exchange without entry emits its whole text.
C32_CacheFollowsRegistry ==
  /\ [](\A id \in Identifiers :
          getKey(id) \in DOMAIN lastThinkingText
            => StreamOf(responseStreamCollection, id.sessionId, id.exchangeId) # {})
  /\ [][Evicted /\ FullTextEmitted]_vars

\* The same with the entries taken by their composite keys
C32_CacheFollowsKeys ==
  /\ [](\A k \in DOMAIN lastThinkingText : MapHas(responseStreamCollection, k))
  /\ [][Evicted /\ FullTextEmitted]_vars

\* The entry written for ('s','x-e') is still in the cache while the stream
\* under its key is that of ('s-x','e'), which has handled no thinking text
StaleEntry ==
  /\ "s-x-e" \in DOMAIN lastThinkingText
  /\ MapGet(responseStreamCollection, "s-x-e").sessionId = "s-x"
  /\ Ident("s-x", "e") \notin DOMAIN lastThought

\* The calls of a step other than close() that were made on a stream close()
\* had been called on
WritesAfterClose(out) == {i \in 1..Len(out) : out[i].op # "close" /\ out[i].closedBefore}

\* No call of the dispatcher, of its catch blocks or of undoToCheckpoint is
\* made on a closed stream
DispatcherWritesOpen ==
  WritesAfterClose(lastStep.out) = {} /\ WritesAfterClose(lastEdit.out) = {}

\* --------------------------------------- edit streams beside a dispatcher
\* One edit stream: its Start, a fragment of two lines, its End
TornEdits ==
  [requests |-> {EditRequest("r1", FALSE, "Start", ""), EditRequest("r1", FALSE, "End", "")}
                \cup {EditRequest("r1", d, "Delta", "a\nb\n") : d \in BOOLEAN},
   calls |-> MaxTornCalls]

\* One request and one dispatcher, which pulls one event, an error; two
\* streams may be opened
Torn ==
  [streams |-> MaxOpenStreams, requests |-> MaxRequests, loops |-> MaxDispatchers,
   pulls |-> MaxBackgroundPulls,
   events |-> Enveloped({<<"Error", "boom", "", "">>}, {Ident("s", "e")}),
   modes |-> Requests]

\* An edit stream while a dispatcher tears streams down
NextTorn ==
  \/ ProvideEditStreamed(TornEdits)
  \/ HandleEvent(Torn)
  \/ SessionAcquired(Torn)
  \/ CallReturned(Torn)
  \/ CallThrows
  \/ DriverCatchResume(Torn)
  \/ Pull(Torn)
  \/ EndOfStream(Torn)
  \/ StreamThrows(Torn)
  \/ ErrorAllocResume(Torn)
  \/ CatchAllocResume(Torn)
  \/ NewExchange(Torn)
  \/ CancelToken(Torn)
  \/ PortFound

SpecTorn == Init /\ [][NextTorn]_vars

\* StreamProcessor (chatState/convertStreamToMessage) is not among the
\* sources. It is constructed with the stream resolved at Start (313-314) and
\* with the apply-directly flag; processLine is taken to push the edit of its
\* line to that stream unless the processor applies directly.
\* The request handed lines to the processLine of a processor that pushes its
\* edits to the stream id
processLineOn(id) ==
  /\ lastEdit'.n = lastEdit.n + 1
  /\ lastEdit'.lines # <<>>
  /\ lastEdit'.request.edit_request_id \in DOMAIN editsMap
  /\ LET streamProcessor == editsMap[lastEdit'.request.edit_request_id].streamProcessor
     IN streamProcessor.stream = id /\ ~streamProcessor.applyDirectly

\* C33: no write is issued on a stream after close() was called on it: not by
\* a dispatcher call or its catch blocks, not by undoToCheckpoint, and not by
\* the processLine of an edit stream that got its stream at Start.
C33_NoWriteAfterClose ==
  [][/\ WritesAfterClose(lastStep'.out) = {}
     /\ WritesAfterClose(lastEdit'.out) = {}
     /\ \A id \in closed : ~processLineOn(id)]_vars

\* The session a dispatcher step acts for: that of the event it handles, or,
\* in the catch block, that of the call
SessionOfStep ==
  IF lastStep'.ev.kind \in {"none", "keep_alive", "started", "done"}
  THEN loops[lastStep'.loop].sessionId
  ELSE lastStep'.ev.request_id

DispatcherStep ==
  lastStep'.act \in {"pull", "end", "streamThrows", "errorAlloc", "catchAlloc"}

\* The streams of other sessions are registered and open as before the step
OtherSessionsKept(sessionId) ==
  \A h \in RegisteredStreams(responseStreamCollection) :
    h.sessionId # sessionId
      => /\ h \in RegisteredStreams(responseStreamCollection')
         /\ h.id \in closed' <=> h.id \in closed

\* C34: a dispatcher step acting for one session makes no call on a stream of
\* another session, and leaves the streams registered for other sessions
\* registered and open.
C34_SessionIsolation ==
  [][DispatcherStep
       => /\ \A i \in 1..Len(lastStep'.out) :
               streams'[lastStep'.out[i].stream].sessionId = SessionOfStep
          /\ OtherSessionsKept(SessionOfStep)]_vars

\* An error of session 's' was reported on the stream of ('s-x','e'), whose
\* key no pair of session 's' shares with the event's
CrossSessionError ==
  /\ lastStep.ev.kind = "Error" /\ lastStep.ev.request_id = "s"
  /\ lastStep.ev.exchange_id = "e"
  /\ \E i \in Calls(lastStep.out, "toolTypeError") :
       streams[lastStep.out[i].stream] = Stream(lastStep.out[i].stream, "s-x", "e")
  /\ \A i \in 1..Len(streams) : streams[i].exchangeId = "e"

\* What holds of the tear-down: a step closes and deregisters only streams
\* registered under a composite key of its session
C34_TearDownByKey ==
  [][DispatcherStep
       => \A i \in 1..Len(responseStreamCollection) :
            LET h == responseStreamCollection[i].value IN
            (h \notin RegisteredStreams(responseStreamCollection') \/ h.id \in closed' \ closed)
              => \E x \in ExchangeIds :
                   responseStreamCollection[i].key = getKey(Ident(SessionOfStep, x))]_vars

\* ------------------------------------------------- the unauthorized retry
\* One request whose first attempt and retry run side by side: each call
\* pulls one event, an authorization failure or a chat delta
Retry ==
  [streams |-> MaxOpenStreams, requests |-> MaxRequests, loops |-> MaxRetryLoops,
   pulls |-> MaxBackgroundPulls,
   events |-> Enveloped({<<"Error", "Unauthorized access to API", "", "">>}
                        \cup ChatPayloads, {Ident("s", "e")}),
   modes |-> Requests]

NextRetry ==
  \/ HandleEvent(Retry)
  \/ SessionAcquired(Retry)
  \/ CallReturned(Retry)
  \/ CallThrows
  \/ DriverCatchResume(Retry)
  \/ Pull(Retry)
  \/ EndOfStream(Retry)
  \/ StreamThrows(Retry)
  \/ ErrorAllocResume(Retry)
  \/ CatchAllocResume(Retry)
  \/ NewExchange(Retry)
  \/ CancelToken(Retry)
  \/ PortFound

SpecRetry == Init /\ [][NextRetry]_vars

\* The call l, a first attempt, finishes handling an authorization failure in
\* this step
FirstAttemptFinishes(l) ==
  /\ lastStep'.loop = l /\ lastStep'.act \in {"pull", "errorAlloc"}
  /\ AuthorizationFailure(lastStep'.ev, responseStreamCollection)
  /\ loops[l].auth = "first"
  /\ lastStep'.exit = "returned"

\* The call r is the retry of the request of the call l
RetryOf(r, l) ==
  /\ loops[r].auth = "retried" /\ loops[l].attempt # 0 /\ loops[r].attempt # 0
  /\ attempts[loops[r].attempt].req = attempts[loops[l].attempt].req

\* C35: when the first attempt finishes handling an authorization failure,
\* the retried call has resolved no stream yet, so the first attempt's
\* tear-down closes no stream the retried call uses, also when the first
\* attempt had to await a new exchange.
C35_FirstFinishesBeforeRetry ==
  [][\A l, r \in 1..Len(loops) :
       (FirstAttemptFinishes(l) /\ RetryOf(r, l))
         => /\ loops[r].resolved = {}
            /\ loops[r].resolved \cap (closed' \ closed) = {}]_vars

\* A first attempt that had a latest stream and awaited nothing finishes
\* before its retry has started a dispatcher call
C35_WithoutAwait ==
  [][\A l, r \in 1..Len(loops) :
       (FirstAttemptFinishes(l) /\ lastStep'.act = "pull") => ~RetryOf(r, l)]_vars

\* C36: the latest-stream reference, when set, is the handle the registry
\* holds under the reference's key: not a removed handle, and not one that a
\* later registration under the same key replaced.
C36_LatestIsRegistered ==
  latestResponseStream # NoLatest
    => MapGet(responseStreamCollection, latestResponseStream.key) = latestResponseStream.value

\* What holds of it: the key of the latest reference is a key of the registry
C36_LatestKeyRegistered ==
  latestResponseStream # NoLatest => MapHas(responseStreamCollection, latestResponseStream.key)

\* ------------------------------------------ overlapping edit-stream requests
\* provideEditStreamed is async: a Delta or End call is suspended at every
\* `await processLine(currentLine)`, and End again at `await workspace.save`.
\* The control server starts the handler of the next request while an
\* earlier one is suspended, so the calls for one edit_request_id interleave
\* at their awaits. inFlight holds those calls, each with its position, and
\* the EditSession object they read once from editsMap and then share.
MaxInFlight == 3

OverlapId == "r1"

OverlapFragments == {"a\nb\n", "c\n"}

\* The calls whose processLine promise has not resolved
InProcessLine(o) == {i \in DOMAIN o.handlers : o.handlers[i].pc = "processLine"}

\* The calls suspended at an await
Suspended(o) == {i \in DOMAIN o.handlers : o.handlers[i].pc \in {"processLine", "save"}}

\* The loop of lines 338-344 and 357-363 up to its next await, for call i:
\* getLine() takes the first buffered line of the shared splitter and
\* processLine is called with it; with no line left Delta returns, and End
\* calls cleanup() and awaits workspace.save.
nextLine(o, i) ==
  LET session == o.sessions[1]
      lines == session.answerSplitter.lines
  IN IF lines # <<>>
     THEN [o EXCEPT !.sessions[1].answerSplitter.lines = Tail(lines),
                    !.sessions[1].streamProcessor.processed = Append(@, Head(lines)),
                    !.handlers[i].pc = "processLine",
                    !.handlers[i].line = Head(lines),
                    !.started = Append(@, Head(lines)),
                    !.afterCleanup = @ \/ o.cleanups > 0]
     ELSE IF o.handlers[i].event = "End"
     THEN [o EXCEPT !.sessions[1].streamProcessor.cleaned = @ + 1,
                    !.handlers[i].pc = "save",
                    !.cleanups = @ + 1,
                    !.afterCleanup = @ \/ InProcessLine(o) \ {i} # {}]
     ELSE [o EXCEPT !.handlers[i].pc = "returned"]

\* editsMap holds a reference to the shared object for as long as the id is
\* in the map
Shared(map, o) ==
  IF OverlapId \in DOMAIN map THEN ThinkingSet(map, OverlapId, o.sessions[1]) ELSE map

OverlapFrame ==
  /\ lastStep' = NoStep
  /\ UNCHANGED <<regVars, cacheVars, streams, cancelledTokens, editorUrl, eventQueue,
                 processingEvents, attempts, loops, callVars, portVars, editRuns, lastEdit>>

\* Start for the id (lines 288-334), applying directly, the file opening
OverlapStart ==
  LET request == EditRequest(OverlapId, TRUE, "Start", "")
      res == provideEditStreamed(World, editsMap, editCounter, request, "opened")
  IN /\ inFlight.sessions = <<>>
     /\ editsMap' = res.map
     /\ editCounter' = res.counter
     /\ inFlight' = [inFlight EXCEPT !.sessions = <<res.map[OverlapId]>>]
     /\ OverlapFrame

\* A Delta request arrives (lines 353-365) and runs to its first await
DeltaArrives ==
  \E fragment \in OverlapFragments :
    LET arrived == [inFlight EXCEPT
                      !.handlers = Append(@, [event |-> "Delta", pc |-> "arrived",
                                              line |-> ""]),
                      !.overlapped = @ \/ Suspended(inFlight) # {}]
        i == Len(arrived.handlers)
    IN /\ inFlight.sessions # <<>>
       /\ Len(inFlight.handlers) < MaxInFlight
       /\ inFlight' =
            IF OverlapId \notin DOMAIN editsMap
            THEN [arrived EXCEPT !.handlers[i].pc = "returned"]
            ELSE nextLine([arrived EXCEPT !.sessions[1].answerSplitter =
                                            addDelta(@, fragment)], i)
       /\ editsMap' = Shared(editsMap, inFlight')
       /\ UNCHANGED editCounter
       /\ OverlapFrame

\* An End request arrives (lines 335-352) and runs to its first await;
\* without a session in the map it throws
EndArrives ==
  LET arrived == [inFlight EXCEPT
                    !.handlers = Append(@, [event |-> "End", pc |-> "arrived", line |-> ""]),
                    !.overlapped = @ \/ Suspended(inFlight) # {}]
      i == Len(arrived.handlers)
  IN /\ inFlight.sessions # <<>>
     /\ Len(inFlight.handlers) < MaxInFlight
     /\ inFlight' = IF OverlapId \notin DOMAIN editsMap
                    THEN [arrived EXCEPT !.handlers[i].pc = "threw"]
                    ELSE nextLine(arrived, i)
     /\ editsMap' = Shared(editsMap, inFlight')
     /\ UNCHANGED editCounter
     /\ OverlapFrame

\* The processLine promise call i awaits resolves; the call goes round its
\* loop, on the object it read from the map when it arrived
ProcessLineReturns ==
  \E i \in InProcessLine(inFlight) :
    /\ inFlight' = nextLine([inFlight EXCEPT !.finished = Append(@, inFlight.handlers[i].line)],
                            i)
    /\ editsMap' = Shared(editsMap, inFlight')
    /\ UNCHANGED editCounter
    /\ OverlapFrame

\* workspace.save resolves for an End call: editsMap.delete, editCounter + 1
SaveReturns ==
  \E i \in DOMAIN inFlight.handlers :
    /\ inFlight.handlers[i].pc = "save"
    /\ inFlight' = [inFlight EXCEPT !.handlers[i].pc = "returned"]
    /\ editsMap' = ThinkingDelete(editsMap, OverlapId)
    /\ editCounter' = editCounter + 1
    /\ OverlapFrame

NextOverlap ==
  \/ OverlapStart
  \/ DeltaArrives
  \/ EndArrives
  \/ ProcessLineReturns
  \/ SaveReturns

SpecOverlap == Init /\ [][NextOverlap]_vars

IsPrefixOf(s, t) == Len(s) <= Len(t) /\ SubSeq(t, 1, Len(s)) = s

\* C37: for one edit-request id, under overlapping Delta and End requests,
\* at most one processLine call is in flight at a time, the lines complete
\* in the order they were taken from the stream, and no processLine call
\* starts or is still running once cleanup() of the session has run
C37_OneProcessLineInOrder ==
  /\ Cardinality(InProcessLine(inFlight)) <= 1
  /\ IsPrefixOf(inFlight.finished, inFlight.started)
  /\ ~inFlight.afterCleanup

\* Two processLine calls of one id in flight at once
TwoInProcessLine == Cardinality(InProcessLine(inFlight)) = 2

\* A processLine call starting, or still running, after cleanup()
ProcessLineAfterCleanup == inFlight.afterCleanup

\* Lines completing in another order than they were taken in
OutOfOrder == ~IsPrefixOf(inFlight.finished, inFlight.started)

\* The same holds as long as no request arrives while a call for the id is
\* suspended: the defect needs the overlap
C37_WithoutOverlap == ~inFlight.overlapped => C37_OneProcessLineInOrder

\* ------------------------------------------------- the queue of requests
\* Requests of three (session, exchange) pairs, two of them with one
\* composite id, arriving before or after the port search has ended
MaxQueued == 2

QueueRequests ==
  {[sessionId |-> id.sessionId, exchangeId |-> id.exchangeId, mode |-> "Chat"] :
     id \in DriverIdents}
  \cup {[sessionId |-> "s", exchangeId |-> "e", mode |-> "Plan"]}

Queue ==
  [streams |-> MaxStreams, requests |-> MaxQueued, loops |-> MaxQueued,
   pulls |-> MaxBackgroundPulls, events |-> Enveloped(ChatPayloads, {Ident("s", "e")}),
   modes |-> QueueRequests]

NextQueue ==
  \/ HandleEvent(Queue)
  \/ PortFound
  \/ SessionAcquired(Queue)
  \/ CallReturned(Queue)
  \/ CallThrows
  \/ DriverCatchResume(Queue)
  \/ Pull(Queue)
  \/ EndOfStream(Queue)
  \/ StreamThrows(Queue)
  \/ CatchAllocResume(Queue)

\* The port search of the constructor ends (getNextOpenPort resolves once its
\* probes are answered) and the awaited getSession answers
SpecQueue ==
  Init /\ [][NextQueue]_vars /\ WF_vars(PortFound) /\ WF_vars(SessionAcquired(Queue))

RequestPair(event) == Ident(event.sessionId, event.exchangeId)

\* Request q is in the queue and is the first of its (session, exchange) pair
FirstOfPair(q) ==
  /\ q <= Len(eventQueue)
  /\ \A p \in 1..(q - 1) : RequestPair(eventQueue[p]) # RequestPair(eventQueue[q])

\* streamResponse has got to its sidecar call for request q
CallStarted(q) ==
  \E a \in DOMAIN attempts : attempts[a].req = q /\ attempts[a].pc # "getSession"

\* C38: every request handed to handleEvent for a (session, exchange) pair not
\* seen before eventually starts a sidecar interaction call, also when it
\* arrives before the port has been found and editorUrl has been set
C38_EveryFirstRequestStarts ==
  \A q \in 1..MaxQueued : FirstOfPair(q) ~> CallStarted(q)

\* A request that arrived before editorUrl was set is still without a
\* streamResponse call after the port has been found
NeverStarted ==
  /\ editorUrl # ""
  /\ Len(eventQueue) = 1
  /\ processingEvents = {getKey(RequestPair(eventQueue[1]))}
  /\ attempts = <<>>

\* The first request of a pair whose composite id is that of a pair handled
\* before is without a streamResponse call, the port having been found
\* before either arrived
NeverStartedSharedId ==
  /\ Len(eventQueue) = 2
  /\ FirstOfPair(2)
  /\ Len(attempts) = 1
  /\ attempts[1].req = 1

\* No step starts a streamResponse call for a request that is already in
\* the queue: a request that was not started when it arrived stays so,
\* whatever arrives later
QueuedNeverWoken ==
  [][\A q \in DOMAIN eventQueue :
       (\A a \in DOMAIN attempts : attempts[a].req # q)
       => \A a \in DOMAIN attempts' : attempts'[a].req # q]_vars

\* What does hold: a request for which processEvent got past the editorUrl
\* check starts its call
C38_StartsOnceUrlIsSet ==
  \A q \in 1..MaxQueued :
    (\E a \in DOMAIN attempts : attempts[a].req = q) ~> CallStarted(q)

\* The streamResponse calls processEvent made for the pair
FirstAttemptsOf(att, queue, id) ==
  {a \in DOMAIN att : ~att[a].hasRetried /\ RequestPair(queue[att[a].req]) = id}

\* C39: over any sequence of handleEvent calls processing starts at most once
\* per (sessionId, exchangeId) pair: the marker of a pair is never cleared,
\* also after its dispatcher has finished; and every event, started or not,
\* is appended to the queue
C39_StartedOncePerPair ==
  [][/\ processingEvents \subseteq processingEvents'
     /\ \A id \in Identifiers : Cardinality(FirstAttemptsOf(attempts', eventQueue', id)) <= 1
     /\ SubSeq(eventQueue', 1, Len(eventQueue)) = eventQueue
     /\ (processingEvents' # processingEvents
           \/ \E id \in Identifiers : FirstAttemptsOf(attempts', eventQueue', id)
                                        # FirstAttemptsOf(attempts, eventQueue, id))
        => /\ Len(eventQueue') = Len(eventQueue) + 1
           /\ processingEvents' =
                processingEvents \cup {getKey(RequestPair(eventQueue'[Len(eventQueue')]))}]_vars

\* A second request of a pair has been queued after the dispatcher of the
\* first has returned, and no second streamResponse call was made
C39_Witness ==
  /\ Len(eventQueue) = 2
  /\ RequestPair(eventQueue[1]) = RequestPair(eventQueue[2])
  /\ Len(attempts) = 1
  /\ attempts[1].pc = "done"
  /\ \E l \in DOMAIN loops : loops[l].attempt = 1 /\ loops[l].pc = "returned"
  /\ getKey(RequestPair(eventQueue[2])) \in processingEvents

\* --------------------------------------------- the gate of the edit stream
\* Edit-stream requests for one edit_request_id of three (session, exchange)
\* pairs, two of them with one composite key: a Start that applies directly
\* (it opens a session whatever the streams), and Start, Delta and End that
\* do not
MaxGateCalls == 3

GateRequest(id, applyDirectly, event, delta) ==
  [EditRequest("r1", applyDirectly, event, delta)
     EXCEPT !.session_id = id.sessionId, !.exchange_id = id.exchangeId]

GateEdits ==
  [requests |-> {GateRequest(id, d, "Start", "") : id \in DriverIdents, d \in BOOLEAN}
                \cup {GateRequest(id, FALSE, "End", "") : id \in DriverIdents}
                \cup {GateRequest(id, FALSE, "Delta", "a\n") : id \in DriverIdents},
   calls |-> MaxGateCalls]

NextGate ==
  \/ ProvideEditStreamed(GateEdits)
  \/ NewExchange(Control)

SpecGate == Init /\ [][NextGate]_vars

\* The step handled an edit-stream request that does not apply directly
GatedStep == lastEdit'.n = lastEdit.n + 1 /\ ~lastEdit'.request.apply_directly

\* The request was turned away with success=false and nothing changed
TurnedAway ==
  /\ lastEdit'.ret = "false"
  /\ lastEdit'.refused
  /\ lastEdit'.lines = <<>> /\ lastEdit'.cleanups = 0 /\ lastEdit'.saves = 0
  /\ lastEdit'.out = <<>>
  /\ UNCHANGED <<editsMap, editCounter, regVars, cacheVars>>

\* C40: a request that is not apply-directly, with no turn-scoped stream open
\* and no stream registered for its (session, exchange), gets success=false
\* whatever its event (Start, Delta, End) and changes no state: no edit
\* session is created, mutated or deleted, the edit counter stays
C40_RefusedWithoutStream ==
  [][(GatedStep
        /\ openResponseStream = NoStream
        /\ StreamOf(responseStreamCollection, lastEdit'.request.session_id,
                    lastEdit'.request.exchange_id) = {})
     => TurnedAway]_vars

\* The same with "registered" read as line 267 reads it, by composite key
C40_RefusedWithoutKey ==
  [][(GatedStep
        /\ openResponseStream = NoStream
        /\ ~MapHas(responseStreamCollection,
                   getKey(Ident(lastEdit'.request.session_id,
                                lastEdit'.request.exchange_id))))
     => TurnedAway]_vars

\* A Start that does not apply directly opened a session although no stream
\* was registered for its (session, exchange)
StartedOnAnotherPairsStream ==
  /\ lastEdit.request.event = "Start"
  /\ ~lastEdit.request.apply_directly
  /\ lastEdit.ret = "true"
  /\ "r1" \in DOMAIN editsMap
  /\ StreamOf(responseStreamCollection, lastEdit.request.session_id,
              lastEdit.request.exchange_id) = {}

\* With a session open, Delta and End were turned away for want of a stream
TurnedAwayWithSession ==
  /\ lastEdit.request.event \in {"Delta", "End"}
  /\ lastEdit.refused
  /\ "r1" \in DOMAIN editsMap


====
